---- MODULE Spec2Model ----
(***************************************************************************)
(* Model of the server renderer of @lwc/engine-server (renderer.ts): the   *)
(* host document tree (insert / remove / attachShadow / setText), the      *)
(* attribute list of an element, and the event listeners with              *)
(* dispatchEvent.                                                          *)
(***************************************************************************)
EXTENDS Integers, Sequences, FiniteSets, TLC

(***************************************************************************)
(* Bounds of the model.                                                    *)
(***************************************************************************)
\* number of renderer calls the environment makes on the host tree
MaxCalls == 4

\* number of renderer calls the environment makes on the attributes
MaxAttrCalls == 3

\* number of listener calls and dispatches the environment makes
MaxEventCalls == 3

(***************************************************************************)
(* Host nodes.  A node is named by a string; NULL is JavaScript's null.    *)
(***************************************************************************)
NULL == "null"

\* objects returned by createElement
Elements == {"e1", "e2", "e3", "e4"}

\* objects returned by createText
Texts == {"t1"}

\* objects returned by attachShadow
ShadowRoots == {"s1"}

\* the node an element's setText puts in place of its children: the caller
\* never gets a reference to it
AnonText == "anonText"

\* the raw node setProperty(el, 'innerHTML', ..) puts in place of the children
AnonRaw == "anonRaw"

Nodes == Elements \cup Texts

Parents == Elements \cup ShadowRoots

AllNodes == Nodes \cup ShadowRoots \cup {AnonText, AnonRaw}

VARIABLES
    calls,      \* number of renderer calls made so far
    parent,     \* node[HostParentKey]
    children,   \* node[HostChildrenKey], of elements and shadow roots
    shadowRoot, \* element[HostShadowRootKey]
    last,       \* the last renderer call: its name and arguments
    cyclic,     \* some call so far left a node that is its own ancestor
    tagName,    \* element.tagName
    attributes, \* element[HostAttributesKey]
    lastAttr,   \* the last call on attributes, and the attribute list before it
    listeners,  \* element[HostEventListenersKey]: per type, a Set in insertion order
    regs,       \* the closures addEventListener made for the once option
    log,        \* the callbacks invoked by the dispatchEvent that just returned
    lastEvent,  \* the dispatchEvent call that just returned
    styleCalls, \* the setCSSStyleProperty calls since the element had no style attribute
    component,  \* the component generateMarkup was generated for, and its arguments
    pc,         \* the position of the running generateMarkup generator
    trace,      \* what generateMarkup did so far, in order
    tracker,    \* __mutationTracker: whether it is enabled for the instance
    irNode,     \* the IR node handed to the Component transformer
    localVars,  \* cxt: the stack of local-variable frames
    lowering,   \* what the Component transformer did and produced
    registry,   \* registry: the constructor registered under a name
    reverseRegistry, \* reverseRegistry: the name a constructor was registered under
    registered, \* the registrations that returned normally, in order
    lastReg,    \* the last call on the registry, and the registry before it
    compilation \* the compileTemplate call: its parse result and what it did so far

treeVars == <<parent, children, shadowRoot>>

attrVars == <<tagName, attributes, lastAttr, styleCalls>>

eventVars == <<listeners, regs, log, lastEvent>>

markupVars == <<component, pc, trace, tracker>>

lowerVars == <<irNode, localVars, lowering>>

registryVars == <<registry, reverseRegistry, registered, lastReg>>

toolVars == <<registryVars, compilation>>

vars == <<calls, parent, children, shadowRoot, last, cyclic, tagName, attributes, lastAttr,
          listeners, regs, log, lastEvent, styleCalls, component, pc, trace, tracker,
          irNode, localVars, lowering, registry, reverseRegistry, registered, lastReg,
          compilation>>

(***************************************************************************)
(* JavaScript array primitives.                                            *)
(***************************************************************************)
\* Array.prototype.indexOf, 0-based, -1 when absent
IndexOf(arr, x) ==
    IF \E i \in 1..Len(arr) : arr[i] = x
    THEN (CHOOSE i \in 1..Len(arr) : arr[i] = x /\ \A j \in 1..(i - 1) : arr[j] # x) - 1
    ELSE -1

\* arr.splice(idx, 1): a negative idx counts from the end
SpliceOut(arr, idx) ==
    LET n == Len(arr)
        raw == IF idx < 0 THEN n + idx ELSE idx
        at == IF raw < 0 THEN 0 ELSE IF raw > n THEN n ELSE raw
    IN  IF at >= n THEN arr
        ELSE SubSeq(arr, 1, at) \o SubSeq(arr, at + 2, n)

\* arr.splice(idx, 0, x) for 0 <= idx <= length
SpliceIn(arr, idx, x) ==
    SubSeq(arr, 1, idx) \o <<x>> \o SubSeq(arr, idx + 1, Len(arr))

\* the elements of arr other than x, in order
Without(arr, x) == SelectSeq(arr, LAMBDA y : y # x)

\* how many times x occurs in arr
Occurrences(arr, x) == Cardinality({i \in 1..Len(arr) : arr[i] = x})

(***************************************************************************)
(* The host tree as a value, so that operations compose.                   *)
(***************************************************************************)
Host == [parent |-> parent, children |-> children, shadowRoot |-> shadowRoot]

\* the tag names createElement is called with
Tags == {"input", "div"}

TagOf == [e \in Elements |-> IF e = "e1" THEN "input" ELSE "div"]

\* every node as createElement / createText return it: no parent, no children
EmptyHost ==
    [parent |-> [n \in Nodes \cup ShadowRoots |-> NULL],
     children |-> [p \in Parents |-> <<>>],
     shadowRoot |-> [e \in Elements |-> NULL]]

\* insert whose detach runs for every non-null parent
InsertAlwaysDetach(h, node, par, anchor) ==
    LET nodeParent == h.parent[node]
        h1 == IF nodeParent # NULL
              THEN [h EXCEPT !.children[nodeParent] =
                        SpliceOut(@, IndexOf(@, node))]
              ELSE h
        anchorIndex == IF anchor = NULL THEN -1 ELSE IndexOf(h1.children[par], anchor)
    IN  [h1 EXCEPT !.parent[node] = par,
                   !.children[par] =
                       IF anchorIndex = -1 THEN Append(@, node)
                       ELSE SpliceIn(@, anchorIndex, node)]

\* insert(node, parent, anchor)
InsertOp(h, node, par, anchor) ==
    LET nodeParent == h.parent[node]
        h1 == IF nodeParent # NULL /\ nodeParent # par
              THEN [h EXCEPT !.children[nodeParent] =
                        SpliceOut(@, IndexOf(@, node))]
              ELSE h
        anchorIndex == IF anchor = NULL THEN -1 ELSE IndexOf(h1.children[par], anchor)
    IN  [h1 EXCEPT !.parent[node] = par,
                   !.children[par] =
                       IF anchorIndex = -1 THEN Append(@, node)
                       ELSE SpliceIn(@, anchorIndex, node)]

\* remove(node, parent)
RemoveOp(h, node, par) ==
    [h EXCEPT !.children[par] = SpliceOut(@, IndexOf(@, node))]

\* the nodes reached from n by following parent references at most k times
RECURSIVE Climb(_, _, _)
Climb(h, n, k) ==
    IF k = 0 \/ n = NULL THEN n ELSE Climb(h, h.parent[n], k - 1)

\* following parent references from n never ends
OnCycle(h, n) == Climb(h, n, Cardinality(Nodes \cup ShadowRoots) + 1) # NULL

\* no node is its own ancestor
Acyclic(h) == \A n \in Nodes : ~OnCycle(h, n)

(***************************************************************************)
(* Renderer calls on the tree.                                             *)
(***************************************************************************)
NoCall == [op |-> "none", node |-> NULL, par |-> NULL, anchor |-> NULL, roundTrip |-> FALSE]

SetHost(h) ==
    /\ cyclic' = (cyclic \/ ~Acyclic(h))
    /\ parent' = h.parent
    /\ children' = h.children
    /\ shadowRoot' = h.shadowRoot

Insert(node, par, anchor) ==
    /\ calls < MaxCalls
    /\ calls' = calls + 1
    /\ SetHost(InsertOp(Host, node, par, anchor))
    /\ UNCHANGED <<attrVars, eventVars, markupVars, lowerVars, toolVars>>
    /\ last' = [op |-> "insert", node |-> node, par |-> par, anchor |-> anchor,
                roundTrip |-> FALSE]

\* remove is called with the node among the parent's children
Remove(node, par) ==
    /\ calls < MaxCalls
    /\ IndexOf(children[par], node) # -1
    /\ calls' = calls + 1
    /\ SetHost(RemoveOp(Host, node, par))
    /\ UNCHANGED <<attrVars, eventVars, markupVars, lowerVars, toolVars>>
    /\ last' = [op |-> "remove", node |-> node, par |-> par, anchor |-> NULL,
                roundTrip |-> (last.op = "insert" /\ last.node = node
                               /\ last.par = par /\ last.anchor = NULL)]

NoAttrCall == [op |-> "none", el |-> NULL, name |-> "", ns |-> NULL, pre |-> <<>>]

EventTypes == {"click", "focus"}

NoListeners == [e \in Elements |-> [type \in EventTypes |-> <<>>]]

NoEvent == [target |-> NULL, type |-> "", composed |-> FALSE, threw |-> FALSE]

\* no setCSSStyleProperty call was made yet
NoStyleCalls == [e \in Elements |-> <<>>]

\* no generateMarkup generator is running
NoMarkup ==
    /\ component = [tagName |-> <<>>]
    /\ pc = "idle"
    /\ trace = <<>>
    /\ tracker = FALSE

\* no template is being lowered
NoLowering ==
    /\ irNode = [name |-> ""]
    /\ localVars = <<>>
    /\ lowering = [done |-> FALSE]

\* the undefined of a missing registry entry
UNDEFINED == "undefined"

\* the names and the constructors the environment registers
RegNames == {<<"x", "-", "a">>, <<"x", "-", "b">>, <<"X", "-", "a">>, <<>>}

Ctors == {"A", "B"}

NoRegCall == [op |-> "none"]

\* the registry is empty
NoRegistry ==
    /\ registry = [name \in RegNames |-> UNDEFINED]
    /\ reverseRegistry = [ctor \in Ctors |-> UNDEFINED]
    /\ registered = <<>>
    /\ lastReg = NoRegCall

\* the registry is empty and no template is being compiled
NoTools ==
    /\ NoRegistry
    /\ compilation = [pc |-> "idle"]

InitEvents ==
    /\ listeners = NoListeners
    /\ regs = <<>>
    /\ log = <<>>
    /\ lastEvent = NoEvent

Init ==
    /\ calls = 0
    /\ parent = EmptyHost.parent
    /\ children = EmptyHost.children
    /\ shadowRoot = EmptyHost.shadowRoot
    /\ last = NoCall
    /\ cyclic = FALSE
    /\ tagName = TagOf
    /\ attributes = [e \in Elements |-> <<>>]
    /\ lastAttr = NoAttrCall
    /\ styleCalls = NoStyleCalls
    /\ InitEvents
    /\ NoMarkup
    /\ NoLowering
    /\ NoTools

\* the nodes and parents the environment passes
TreeNodes == {"e1", "e2", "e3", "t1"}

TreeParents == {"e1", "e2", "e3"}

Next ==
    \/ \E node \in TreeNodes, par \in TreeParents, anchor \in TreeNodes \cup {NULL} :
           Insert(node, par, anchor)
    \/ \E node \in TreeNodes, par \in TreeParents : Remove(node, par)

Spec == Init /\ [][Next]_vars

(***************************************************************************)
(* Properties of the host tree.                                            *)
(***************************************************************************)
\* C1: every node occurs at most once in the union of all children sequences,
\* and a node that occurs in a parent's children has that parent as its parent
\* reference.  Stated for the runs that never made a node its own ancestor, so
\* that a failure does not rest on a node inserted into itself.
C1_SingleOwner ==
    ~cyclic =>
    /\ \A n \in Nodes : \A p, q \in Parents :
           /\ Occurrences(children[p], n) <= 1
           /\ (p # q /\ Occurrences(children[p], n) > 0) => Occurrences(children[q], n) = 0
    /\ \A n \in Nodes : \A p \in Parents :
           Occurrences(children[p], n) > 0 => parent[n] = p

\* C2: the host tree is acyclic: following parent references from any node
\* reaches null, no node is its own ancestor.
C2_Acyclic == Acyclic(Host)

\* what C3 says children[par] is after insert(node, par, anchor)
InsertPost(h, node, par, anchor, after) ==
    LET before == h.children[par]
        arr == after.children[par]
        old == h.parent[node]
    IN  /\ Occurrences(arr, node) = 1
        /\ Without(arr, node) = Without(before, node)
        /\ (anchor = NULL \/ IndexOf(before, anchor) = -1) => arr[Len(arr)] = node
        /\ (anchor # NULL /\ anchor # node /\ IndexOf(before, anchor) # -1) =>
               arr[IndexOf(arr, node) + 2] = anchor
        /\ (old # NULL /\ old # par) => Occurrences(after.children[old], node) = 0

\* C3: insert(node, parent, anchor) places node last when anchor is null or not
\* among parent's children, otherwise immediately before anchor; node is first
\* detached from its current parent's children and parent's other children keep
\* their order.  Stated for the calls that keep the tree acyclic.
C3_InsertPlaces ==
    \A node \in Nodes, par \in Elements, anchor \in Nodes \cup {NULL} :
        (~cyclic /\ Acyclic(InsertOp(Host, node, par, anchor))) =>
        InsertPost(Host, node, par, anchor, InsertOp(Host, node, par, anchor))

\* C4: insert(node, parent, null) followed by remove(node, parent) leaves
\* parent's children other than node the same nodes in the same order.
C4_RoundTrip ==
    \A node \in Nodes, par \in Elements :
        LET h1 == InsertOp(Host, node, par, NULL)
            h2 == RemoveOp(h1, node, par)
        IN  Without(h2.children[par], node) = Without(children[par], node)

\* a remove that directly follows insert(node, parent, null), on a parent that
\* has two other children
C4_Witness ==
    /\ ~cyclic
    /\ last.op = "remove"
    /\ last.roundTrip
    /\ Occurrences(children[last.par], last.node) = 0
    /\ Len(children[last.par]) = 2
    /\ children[last.par][1] # children[last.par][2]

\* C26: insert(node, parent, anchor) never removes a node other than node from
\* any children sequence: for every parent p the children of p other than node
\* are the same before and after the call, also when node was taken out of its
\* former parent earlier.
C26_InsertKeepsOthers ==
    \A node \in Nodes, par \in Elements, anchor \in Nodes \cup {NULL}, owner \in Parents :
        Without(InsertOp(Host, node, par, anchor).children[owner], node)
            = Without(children[owner], node)

(***************************************************************************)
(* JavaScript values.  A value carries its type and the text String(value) *)
(* gives for it.                                                           *)
(***************************************************************************)
Str(text) == [t |-> "string", v |-> text]

Num(text) == [t |-> "number", v |-> text]

TrueV == [t |-> "boolean", v |-> "true"]

FalseV == [t |-> "boolean", v |-> "false"]

NullV == [t |-> "null", v |-> "null"]

UndefinedV == [t |-> "undefined", v |-> "undefined"]

\* String(value)
String(value) == Str(value.v)

\* an omitted namespace argument
UNDEF == "undefined"

\* a namespace URI
XLINK == "http://www.w3.org/1999/xlink"

(***************************************************************************)
(* @lwc/shared: attribute tables, for the keys the model uses.             *)
(***************************************************************************)
htmlPropertyToAttribute(key) ==
    CASE key = "ariaLabel" -> "aria-label"
      [] key = "tabIndex" -> "tabindex"
      [] key = "innerHTML" -> "inner-h-t-m-l"
      [] OTHER -> key

isBooleanAttribute(attrName, tag) ==
    \/ attrName = "hidden"
    \/ attrName = "checked" /\ tag = "input"

isGlobalHtmlAttribute(attrName) == attrName \in {"title", "tabindex", "id"}

isAriaAttribute(attrName) == attrName \in {"aria-label"}

(***************************************************************************)
(* ./utils/classes: class names as token lists.                            *)
(***************************************************************************)
ClassTokens == {"a", "b"}

TokenLists ==
    {<<>>} \cup {<<x>> : x \in ClassTokens}
           \cup {l \in {<<x, y>> : x \in ClassTokens, y \in ClassTokens} : l[1] # l[2]}

RECURSIVE tokenListToClassName(_)
tokenListToClassName(tokens) ==
    IF tokens = <<>> THEN ""
    ELSE IF Len(tokens) = 1 THEN tokens[1]
    ELSE tokens[1] \o " " \o tokenListToClassName(Tail(tokens))

classNameToTokenList(text) ==
    IF \E l \in TokenLists : tokenListToClassName(l) = text
    THEN CHOOSE l \in TokenLists : tokenListToClassName(l) = text
    ELSE <<text>>

\* Set.prototype.add on a set kept in insertion order
SetAdd(list, x) == IF IndexOf(list, x) = -1 THEN Append(list, x) ELSE list

\* Set.prototype.delete
SetDelete(list, x) == SelectSeq(list, LAMBDA y : y # x)

(***************************************************************************)
(* The attribute list of an element: element[HostAttributesKey].           *)
(***************************************************************************)
\* Array.prototype.find with the predicate of getAttribute / setAttribute:
\* the 1-based position of the first match, 0 when there is none
FindAttr(attrs, name, ns) ==
    IF \E i \in 1..Len(attrs) : attrs[i].name = name /\ attrs[i].ns = ns
    THEN CHOOSE i \in 1..Len(attrs) :
             /\ attrs[i].name = name /\ attrs[i].ns = ns
             /\ \A j \in 1..(i - 1) : ~(attrs[j].name = name /\ attrs[j].ns = ns)
    ELSE 0

\* a default parameter `namespace = null` takes the place of undefined
DefaultNull(ns) == IF ns = UNDEF THEN NULL ELSE ns

\* getAttribute(element, name, namespace = null)
GetAttributeOp(attrs, name, nsArg) ==
    LET i == FindAttr(attrs, name, DefaultNull(nsArg))
    IN  IF i = 0 THEN NullV ELSE attrs[i].value

\* setAttribute(element, name, value, namespace = null)
SetAttributeOp(attrs, name, value, nsArg) ==
    LET ns == DefaultNull(nsArg)
        i == FindAttr(attrs, name, ns)
    IN  IF i = 0
        THEN Append(attrs, [name |-> name, ns |-> ns, value |-> String(value)])
        ELSE [attrs EXCEPT ![i].value = value]

\* removeAttribute that removes the attribute keyed by (name, namespace = null)
RemoveAttributeByKey(attrs, name, nsArg) ==
    SelectSeq(attrs, LAMBDA a : ~(a.name = name /\ a.ns = DefaultNull(nsArg)))

\* removeAttribute(element, name, namespace?): the filter keeps an attribute
\* when its name differs and its namespace differs
RemoveAttributeOp(attrs, name, nsArg) ==
    SelectSeq(attrs, LAMBDA a : a.name # name /\ a.ns # nsArg)

\* getClassAttribute() of getClassList: the attribute list with a class
\* attribute in it
WithClassAttribute(attrs) ==
    IF FindAttr(attrs, "class", NULL) = 0
    THEN Append(attrs, [name |-> "class", ns |-> NULL, value |-> Str("")])
    ELSE attrs

\* getClassList(element).add(name)
ClassListAddOp(attrs, token) ==
    LET a == WithClassAttribute(attrs)
        i == FindAttr(a, "class", NULL)
        tokenList == SetAdd(classNameToTokenList(a[i].value.v), token)
    IN  [a EXCEPT ![i].value = Str(tokenListToClassName(tokenList))]

\* getClassList(element).remove(name)
ClassListRemoveOp(attrs, token) ==
    LET a == WithClassAttribute(attrs)
        i == FindAttr(a, "class", NULL)
        tokenList == SetDelete(classNameToTokenList(a[i].value.v), token)
    IN  [a EXCEPT ![i].value = Str(tokenListToClassName(tokenList))]

\* the serializedProperty of setCSSStyleProperty
SerializedProperty(name, value, important) ==
    name \o ": " \o value \o (IF important THEN " !important" ELSE "")

\* setCSSStyleProperty that pushes a style attribute on every call
SetCSSStylePropertyPush(attrs, name, value, important) ==
    Append(attrs, [name |-> "style", ns |-> NULL,
                   value |-> Str(SerializedProperty(name, value, important))])

\* setCSSStyleProperty that replaces the value of the style attribute
SetCSSStylePropertyReplace(attrs, name, value, important) ==
    LET i == FindAttr(attrs, "style", NULL)
        serializedProperty == SerializedProperty(name, value, important)
    IN  IF i = 0
        THEN Append(attrs, [name |-> "style", ns |-> NULL,
                            value |-> Str(serializedProperty)])
        ELSE [attrs EXCEPT ![i].value = Str(serializedProperty)]

\* setCSSStyleProperty(element, name, value, important)
SetCSSStylePropertyOp(attrs, name, value, important) ==
    LET i == FindAttr(attrs, "style", NULL)
        serializedProperty == SerializedProperty(name, value, important)
    IN  IF i = 0
        THEN Append(attrs, [name |-> "style", ns |-> NULL,
                            value |-> Str(serializedProperty)])
        ELSE [attrs EXCEPT ![i].value =
                  [t |-> "string", v |-> @.v \o "; " \o serializedProperty]]

\* the branch setProperty takes for a key that is no field of the node
PropertyKind(tag, key) ==
    LET attrName == htmlPropertyToAttribute(key)
    IN  IF key = "innerHTML" THEN "innerHTML"
        ELSE IF isBooleanAttribute(attrName, tag) THEN "boolean"
        ELSE IF isGlobalHtmlAttribute(attrName) \/ isAriaAttribute(attrName) THEN "global"
        ELSE IF tag = "input" /\ attrName = "value" THEN "value"
        ELSE "unexpected"

\* a ?? b
Coalesce(value, default) == IF value \in {NullV, UndefinedV} THEN default ELSE value

\* getProperty(node, key) on an element, key no field of the node
GetPropertyOp(attrs, tag, key) ==
    LET attrName == htmlPropertyToAttribute(key) IN
    IF isBooleanAttribute(attrName, tag)
    THEN Coalesce(GetAttributeOp(attrs, attrName, UNDEF), FalseV)
    ELSE IF isGlobalHtmlAttribute(attrName) \/ isAriaAttribute(attrName)
    THEN GetAttributeOp(attrs, attrName, UNDEF)
    ELSE IF tag = "input" /\ key = "value"
    THEN Coalesce(GetAttributeOp(attrs, "value", UNDEF), Str(""))
    ELSE UndefinedV

\* the attribute list after setProperty(node, key, value), key no field of the node
SetPropertyAttrs(attrs, tag, key, value) ==
    LET attrName == htmlPropertyToAttribute(key)
        kind == PropertyKind(tag, key)
    IN  CASE kind = "boolean" ->
                 IF value = TrueV THEN SetAttributeOp(attrs, attrName, Str(""), UNDEF)
                 ELSE RemoveAttributeOp(attrs, attrName, UNDEF)
          [] kind = "global" -> SetAttributeOp(attrs, attrName, value, UNDEF)
          [] kind = "value" ->
                 IF value = NullV \/ value = UndefinedV
                 THEN RemoveAttributeOp(attrs, "value", UNDEF)
                 ELSE SetAttributeOp(attrs, "value", value, UNDEF)
          [] OTHER -> attrs

(***************************************************************************)
(* Renderer calls on attributes and properties.                            *)
(***************************************************************************)
\* the elements, names and values the environment passes
AttrElements == {"e1"}

AttrNames == {"href", "class"}

Namespaces == {UNDEF, NULL, XLINK}

AttrValues == {Str("a"), Num("1")}

PropKeys == {"tagName", "innerHTML", "hidden", "ariaLabel", "value", "foo"}

PropValues == {TrueV, FalseV, NullV, Str("div"), Num("1")}

StyleNames == {"color", "width"}

StyleValues == {"red", "1px"}

\* a call that is not setCSSStyleProperty: the calls counted start again when
\* it leaves the element without a style attribute
StyleCallsKept(el) ==
    styleCalls' = [styleCalls EXCEPT ![el] =
                      IF FindAttr(attributes'[el], "style", NULL) = 0 THEN <<>> ELSE @]

AttrCall(op, el, name, ns, attrs) ==
    /\ calls < MaxAttrCalls
    /\ calls' = calls + 1
    /\ attributes' = [attributes EXCEPT ![el] = attrs]
    /\ lastAttr' = [op |-> op, el |-> el, name |-> name, ns |-> ns, pre |-> attributes[el]]
    /\ UNCHANGED <<parent, shadowRoot, last, cyclic, eventVars, markupVars, lowerVars, toolVars>>

SetAttribute(el, name, value, nsArg) ==
    /\ AttrCall("setAttribute", el, name, nsArg,
                SetAttributeOp(attributes[el], name, value, nsArg))
    /\ StyleCallsKept(el)
    /\ UNCHANGED <<children, tagName>>

RemoveAttribute(el, name, nsArg) ==
    /\ AttrCall("removeAttribute", el, name, nsArg,
                RemoveAttributeOp(attributes[el], name, nsArg))
    /\ StyleCallsKept(el)
    /\ UNCHANGED <<children, tagName>>

ClassListAdd(el, token) ==
    /\ AttrCall("classList.add", el, "class", NULL, ClassListAddOp(attributes[el], token))
    /\ StyleCallsKept(el)
    /\ UNCHANGED <<children, tagName>>

ClassListRemove(el, token) ==
    /\ AttrCall("classList.remove", el, "class", NULL,
                ClassListRemoveOp(attributes[el], token))
    /\ StyleCallsKept(el)
    /\ UNCHANGED <<children, tagName>>

SetCSSStyleProperty(el, name, value, important) ==
    /\ AttrCall("setCSSStyleProperty", el, "style", NULL,
                SetCSSStylePropertyOp(attributes[el], name, value, important))
    /\ styleCalls' = [styleCalls EXCEPT ![el] =
                          Append(IF FindAttr(attributes[el], "style", NULL) = 0 THEN <<>> ELSE @,
                                 [name |-> name, value |-> value, important |-> important])]
    /\ UNCHANGED <<children, tagName>>

\* setProperty(node, key, value) on an element
SetProperty(el, key, value) ==
    IF key = "tagName"
    THEN /\ value \in {Str(tag) : tag \in Tags}
         /\ AttrCall("setProperty", el, key, NULL, attributes[el])
         /\ tagName' = [tagName EXCEPT ![el] = value.v]
         /\ StyleCallsKept(el)
         /\ UNCHANGED children
    ELSE /\ AttrCall("setProperty", el, htmlPropertyToAttribute(key), UNDEF,
                     SetPropertyAttrs(attributes[el], tagName[el], key, value))
         /\ children' = IF key = "innerHTML"
                        THEN [children EXCEPT ![el] = <<AnonRaw>>]
                        ELSE children
         /\ StyleCallsKept(el)
         /\ UNCHANGED tagName

NextAttr ==
    \/ \E el \in AttrElements, name \in AttrNames, value \in AttrValues, ns \in Namespaces :
           SetAttribute(el, name, value, ns)
    \/ \E el \in AttrElements, name \in AttrNames, ns \in Namespaces :
           RemoveAttribute(el, name, ns)
    \/ \E el \in AttrElements, token \in ClassTokens : ClassListAdd(el, token)
    \/ \E el \in AttrElements, token \in ClassTokens : ClassListRemove(el, token)
    \/ \E el \in AttrElements, name \in StyleNames, value \in StyleValues,
          important \in BOOLEAN : SetCSSStyleProperty(el, name, value, important)
    \/ \E el \in AttrElements, key \in PropKeys, value \in PropValues :
           SetProperty(el, key, value)

\* the element is created with either tag name
InitAttr ==
    /\ calls = 0
    /\ parent = EmptyHost.parent
    /\ children = EmptyHost.children
    /\ shadowRoot = EmptyHost.shadowRoot
    /\ last = NoCall
    /\ cyclic = FALSE
    /\ \E tag \in Tags : tagName = [e \in Elements |-> IF e \in AttrElements THEN tag ELSE TagOf[e]]
    /\ attributes = [e \in Elements |-> <<>>]
    /\ lastAttr = NoAttrCall
    /\ styleCalls = NoStyleCalls
    /\ InitEvents
    /\ NoMarkup
    /\ NoLowering
    /\ NoTools

SpecAttr == InitAttr /\ [][NextAttr]_vars

\* the names an attribute call and a property call can both reach
PropAttrNames == {"hidden", "href"}

\* setAttribute and setProperty calls on one element
NextProp ==
    \/ \E el \in AttrElements, name \in PropAttrNames, value \in AttrValues, ns \in Namespaces :
           SetAttribute(el, name, value, ns)
    \/ \E el \in AttrElements, key \in PropKeys, value \in PropValues :
           SetProperty(el, key, value)

SpecProp == InitAttr /\ [][NextProp]_vars

\* C5: removeAttribute(element, name, namespace) removes exactly the attribute
\* keyed by (name, namespace), an omitted namespace meaning null, and leaves
\* every other attribute of the element unchanged.
C5_RemoveExactlyKey ==
    lastAttr.op = "removeAttribute" =>
        attributes[lastAttr.el] = RemoveAttributeByKey(lastAttr.pre, lastAttr.name, lastAttr.ns)

\* C6: the attribute list of an element holds at most one attribute per
\* (name, namespace) pair.
C6_UniqueKeys ==
    \A el \in Elements : \A i, j \in 1..Len(attributes[el]) :
        (attributes[el][i].name = attributes[el][j].name
         /\ attributes[el][i].ns = attributes[el][j].ns) => i = j

\* a call that found its attribute in a list of two attributes of the same
\* name and updated it
C6_Witness ==
    /\ lastAttr.op \in {"setAttribute", "setCSSStyleProperty", "classList.add"}
    /\ Len(lastAttr.pre) = 2
    /\ Len(attributes[lastAttr.el]) = 2
    /\ attributes[lastAttr.el] # lastAttr.pre
    /\ attributes[lastAttr.el][1].name = attributes[lastAttr.el][2].name

\* the segment of the style attribute a call is to leave
Segment(call) ==
    call.name \o ": " \o call.value \o (IF call.important THEN " !important" ELSE "")

\* the segments of the calls, joined by "; "
RECURSIVE JoinSegments(_)
JoinSegments(styles) ==
    IF Len(styles) = 1
    THEN Segment(styles[1])
    ELSE JoinSegments(SubSeq(styles, 1, Len(styles) - 1)) \o "; "
         \o Segment(styles[Len(styles)])

\* C20: setCSSStyleProperty calls on an element never make a second style
\* attribute: after n calls on an element that had no style attribute, its
\* one style attribute has as value the n segments 'name: value', with
\* ' !important' when important is true, joined by '; ' in the order of the calls.
C20_StyleSegments ==
    \A el \in AttrElements :
        LET styles == SelectSeq(attributes[el], LAMBDA attr : attr.name = "style") IN
        /\ Len(styles) <= 1
        /\ styleCalls[el] = <<>> => styles = <<>>
        /\ styleCalls[el] # <<>> =>
               styles = <<[name |-> "style", ns |-> NULL,
                           value |-> Str(JoinSegments(styleCalls[el]))]>>

\* the calls of the spec's scenario were made
C20_Witness ==
    /\ styleCalls["e1"] = <<[name |-> "color", value |-> "red", important |-> FALSE],
                            [name |-> "width", value |-> "1px", important |-> TRUE]>>
    /\ lastAttr.op = "setCSSStyleProperty"
    /\ \E i \in 1..Len(attributes["e1"]) :
           attributes["e1"][i].value = Str("color: red; width: 1px !important")

\* C34: every attribute value stored on an element is a string: after
\* setAttribute(el, name, v, ns), also with a v that is no string,
\* getAttribute(el, name, ns) returns String(v), whether the call creates the
\* attribute or updates it.
C34_ValuesAreStrings ==
    \A el \in AttrElements :
        /\ \A k \in 1..Len(attributes[el]) : attributes[el][k].value.t = "string"
        /\ \A name \in AttrNames, v \in AttrValues, ns \in Namespaces :
               GetAttributeOp(SetAttributeOp(attributes[el], name, v, ns), name, ns)
                   = String(v)

\* the attributes of the list that are not keyed by (name, null)
OtherAttributes(attrs, name) == RemoveAttributeByKey(attrs, name, NULL)

\* what setProperty(el, key, value) is to leave for a boolean attribute
BooleanPropertySet(el, key, value) ==
    LET attrName == htmlPropertyToAttribute(key) IN
    /\ OtherAttributes(attributes'[el], attrName) = OtherAttributes(attributes[el], attrName)
    /\ IF value = TrueV
       THEN GetAttributeOp(attributes'[el], attrName, NULL) = Str("")
       ELSE FindAttr(attributes'[el], attrName, NULL) = 0

\* C21: setProperty on an element for a boolean-attribute property that is no
\* field of the node sets the attribute to the empty string when the value is
\* true and removes it for every other value, and leaves the other attributes
\* of the element unchanged.
C21_BooleanProperty ==
    [][\A el \in AttrElements, key \in PropKeys \ {"tagName"}, value \in PropValues :
           (SetProperty(el, key, value) /\ PropertyKind(tagName[el], key) = "boolean")
               => BooleanPropertySet(el, key, value)]_vars

\* C33: round trip of a boolean-attribute property that is no field of the
\* element: getProperty(el, key) returns true after setProperty(el, key, true),
\* and false after setProperty(el, key, false) or when the attribute was
\* never set.
C33_BooleanRoundTrip ==
    \A el \in AttrElements, key \in PropKeys \ {"tagName"} :
        PropertyKind(tagName[el], key) = "boolean" =>
            /\ GetPropertyOp(SetPropertyAttrs(attributes[el], tagName[el], key, TrueV),
                             tagName[el], key) = TrueV
            /\ GetPropertyOp(SetPropertyAttrs(attributes[el], tagName[el], key, FalseV),
                             tagName[el], key) = FalseV
            /\ (\A k \in 1..Len(attributes[el]) :
                    attributes[el][k].name # htmlPropertyToAttribute(key)) =>
                   GetPropertyOp(attributes[el], tagName[el], key) = FalseV

(***************************************************************************)
(* Shadow roots.                                                           *)
(***************************************************************************)
\* attachShadow(element, config): sr is the shadow root object it creates
AttachShadowOp(h, el, sr) ==
    [h EXCEPT !.shadowRoot[el] = sr, !.children[sr] = <<>>, !.parent[sr] = el]

(***************************************************************************)
(* Event listeners.  A callback is named by what it does with the event;   *)
(* an entry of a listener Set is the callback itself, or the closure       *)
(* addEventListener made for the once option (id: its place in regs).      *)
(***************************************************************************)
Callbacks == {"cbReturn", "cbStop", "cbStopNow", "cbThrow"}

\* what the callback does when invoked
CallsStopPropagation(cb) == cb = "cbStop"

CallsStopImmediatePropagation(cb) == cb = "cbStopNow"

Throws(cb) == cb = "cbThrow"

\* the useCaptureOrOptions argument: undefined, true, {capture: true}, {once: true}
ListenerOptions == {"none", "true", "capture", "once"}

Plain(cb) == [cb |-> cb, once |-> FALSE, id |-> 0]

Wrapper(cb, id) == [cb |-> cb, once |-> TRUE, id |-> id]

\* the listeners and the closures as a value
Ev == [listeners |-> listeners, regs |-> regs]

\* addEventListener(node, type, callback, useCaptureOrOptions)
AddEventListenerOp(ev, node, type, cb, options) ==
    IF node \notin Elements THEN ev
    ELSE IF options \in {"true", "capture"} THEN ev
    ELSE LET id == Len(ev.regs) + 1
             savedCallback == IF options = "once" THEN Wrapper(cb, id) ELSE Plain(cb)
         IN  [listeners |-> [ev.listeners EXCEPT ![node][type] = SetAdd(@, savedCallback)],
              regs |-> IF options = "once"
                       THEN Append(ev.regs, [node |-> node, type |-> type, cb |-> cb,
                                             dispatches |-> 0, invoked |-> 0])
                       ELSE ev.regs]

\* removeEventListener(node, type, callback)
RemoveEventListenerOp(ev, node, type, cb) ==
    IF node \notin Elements THEN ev
    ELSE [ev EXCEPT !.listeners[node][type] = SetDelete(@, Plain(cb))]

(***************************************************************************)
(* dispatchEvent.  The state of one call: the listeners, the closures, the *)
(* callbacks invoked so far, the two flags and whether a callback threw.   *)
(***************************************************************************)
\* a once closure that removes itself only when the callback returns
InvokeNoFinally(st, entry, node, type) ==
    LET cb == entry.cb
        removed == IF entry.once /\ ~Throws(cb)
                   THEN [st.listeners EXCEPT ![node][type] = SetDelete(@, entry)]
                   ELSE st.listeners
    IN  [listeners |-> removed,
         regs |-> IF entry.once THEN [st.regs EXCEPT ![entry.id].invoked = @ + 1]
                  ELSE st.regs,
         log |-> Append(st.log, [node |-> node, cb |-> cb, once |-> entry.once]),
         stop |-> st.stop \/ CallsStopPropagation(cb) \/ CallsStopImmediatePropagation(cb),
         stopImmediately |-> st.stopImmediately \/ CallsStopImmediatePropagation(cb),
         threw |-> Throws(cb)]

\* callback(eventProxy): a once closure calls the callback and, in its
\* finally, removes itself from the Set of the node it was registered on
Invoke(st, entry, node, type) ==
    LET cb == entry.cb
        removed == IF entry.once
                   THEN [st.listeners EXCEPT ![node][type] = SetDelete(@, entry)]
                   ELSE st.listeners
    IN  [listeners |-> removed,
         regs |-> IF entry.once THEN [st.regs EXCEPT ![entry.id].invoked = @ + 1]
                  ELSE st.regs,
         log |-> Append(st.log, [node |-> node, cb |-> cb, once |-> entry.once]),
         stop |-> st.stop \/ CallsStopPropagation(cb) \/ CallsStopImmediatePropagation(cb),
         stopImmediately |-> st.stopImmediately \/ CallsStopImmediatePropagation(cb),
         threw |-> Throws(cb)]

\* the for loop over the Set of the current node: an entry deleted meanwhile
\* is not visited, a throw ends the loop
RECURSIVE RunCallbacks(_, _, _, _)
RunCallbacks(st, callbacks, node, type) ==
    IF callbacks = <<>> \/ st.threw THEN st
    ELSE LET entry == Head(callbacks)
             visited == IndexOf(st.listeners[node][type], entry) # -1
         IN  IF visited /\ ~st.stopImmediately
             THEN RunCallbacks(Invoke(st, entry, node, type), Tail(callbacks), node, type)
             ELSE RunCallbacks(st, Tail(callbacks), node, type)

\* the loop that ignores the stop flag
RECURSIVE WalkIgnoringStop(_, _, _, _, _)
WalkIgnoringStop(h, st, currentNode, type, composed) ==
    LET st1 == IF currentNode \in Elements
               THEN RunCallbacks(st, st.listeners[currentNode][type], currentNode, type)
               ELSE st
        next == h.parent[currentNode]
    IN  IF st1.threw THEN st1
        ELSE IF next # NULL /\ (next \notin ShadowRoots \/ composed)
        THEN WalkIgnoringStop(h, st1, next, type, composed)
        ELSE st1

\* the loop that climbs through a shadow root whatever composed is
RECURSIVE WalkThroughShadow(_, _, _, _, _)
WalkThroughShadow(h, st, currentNode, type, composed) ==
    LET st1 == IF currentNode \in Elements
               THEN RunCallbacks(st, st.listeners[currentNode][type], currentNode, type)
               ELSE st
        next == h.parent[currentNode]
    IN  IF st1.threw THEN st1
        ELSE IF ~st1.stop /\ next # NULL
        THEN WalkThroughShadow(h, st1, next, type, composed)
        ELSE st1

\* the do ... while loop of dispatchEvent, from currentNode upward
RECURSIVE Walk(_, _, _, _, _)
Walk(h, st, currentNode, type, composed) ==
    LET st1 == IF currentNode \in Elements
               THEN RunCallbacks(st, st.listeners[currentNode][type], currentNode, type)
               ELSE st
        next == h.parent[currentNode]
    IN  IF st1.threw THEN st1
        ELSE IF ~st1.stop /\ next # NULL /\ (next \notin ShadowRoots \/ composed)
        THEN Walk(h, st1, next, type, composed)
        ELSE st1

\* dispatchEvent(target, event), event.type = type, event.composed = composed
DispatchEventOp(h, ev, target, type, composed) ==
    LET st0 == [listeners |-> ev.listeners, regs |-> ev.regs, log |-> <<>>,
                stop |-> FALSE, stopImmediately |-> FALSE, threw |-> FALSE]
    IN  IF target \notin Elements THEN st0
        ELSE Walk(h, st0, target, type, composed)

\* the iterations after which the loop has been through some node twice
WalkFuel == 2 * Cardinality(Nodes \cup ShadowRoots)

\* the do ... while loop of dispatchEvent run for at most fuel + 1 iterations:
\* returned is FALSE when the loop is still going then.  Once every node of
\* the parent chain was visited with no callback stopping or throwing, no
\* later iteration differs, and the loop never ends.
RECURSIVE WalkBounded(_, _, _, _, _, _)
WalkBounded(h, st, currentNode, type, composed, fuel) ==
    LET st1 == IF currentNode \in Elements
               THEN RunCallbacks(st, st.listeners[currentNode][type], currentNode, type)
               ELSE st
        next == h.parent[currentNode]
    IN  IF st1.threw THEN [st |-> st1, returned |-> TRUE]
        ELSE IF ~st1.stop /\ next # NULL /\ (next \notin ShadowRoots \/ composed)
        THEN IF fuel = 0 THEN [st |-> st1, returned |-> FALSE]
             ELSE WalkBounded(h, st1, next, type, composed, fuel - 1)
        ELSE [st |-> st1, returned |-> TRUE]

\* dispatchEvent(target, event) with the loop bounded
DispatchEventBounded(h, ev, target, type, composed) ==
    LET st0 == [listeners |-> ev.listeners, regs |-> ev.regs, log |-> <<>>,
                stop |-> FALSE, stopImmediately |-> FALSE, threw |-> FALSE]
    IN  IF target \notin Elements THEN [st |-> st0, returned |-> TRUE]
        ELSE WalkBounded(h, st0, target, type, composed, WalkFuel)

\* isConnected(node)
IsConnectedOp(h, node) == h.parent[node] # NULL

\* nextSibling(node): an index past the end gives undefined, and null
NextSiblingOp(h, node) ==
    LET par == h.parent[node] IN
    IF par = NULL THEN NULL
    ELSE LET nodeIndex == IndexOf(h.children[par], node) IN
         IF nodeIndex + 2 \in 1..Len(h.children[par])
         THEN h.children[par][nodeIndex + 2]
         ELSE NULL

(***************************************************************************)
(* Properties of the host tree under remove and dispatchEvent.             *)
(***************************************************************************)
\* a returning click listener on every element
ListenersEverywhere ==
    [listeners |-> [e \in Elements |-> [type \in EventTypes |-> <<Plain("cbReturn")>>]],
     regs |-> <<>>]

\* n and the nodes reached from n by parent references
ChainOf(h, n) == {Climb(h, n, k) : k \in 0..Cardinality(Nodes \cup ShadowRoots)} \ {NULL}

\* C27: after remove(node, parent) the node is unattached: its parent
\* reference is null, isConnected(node) is false, nextSibling(node) is null,
\* and an event dispatched at node invokes no listener of the former parent
\* or of the former parent's ancestors.
C27_RemovedIsUnattached ==
    last.op = "remove" =>
        /\ parent[last.node] = NULL
        /\ ~IsConnectedOp(Host, last.node)
        /\ NextSiblingOp(Host, last.node) = NULL
        /\ LET run == DispatchEventBounded(Host, ListenersEverywhere, last.node, "click", TRUE).st
           IN  \A k \in 1..Len(run.log) :
                   run.log[k].node \in ChainOf(Host, last.par) => run.log[k].node = last.node

\* C28: dispatchEvent terminates on every host tree the renderer's operations
\* reach, whatever the listeners do and whether or not the event is composed.
C28_DispatchTerminates ==
    \A target \in Elements, composed \in BOOLEAN :
        DispatchEventBounded(Host, [listeners |-> listeners, regs |-> regs],
                             target, "click", composed).returned

(***************************************************************************)
(* Listener calls and dispatches, on a tree with a shadow root.            *)
(***************************************************************************)
\* e1 > e2 (the shadow host) > s1 > e3 > e4
EventTree ==
    LET h1 == AttachShadowOp(EmptyHost, "e2", "s1")
        h2 == InsertOp(h1, "e2", "e1", NULL)
        h3 == InsertOp(h2, "e3", "s1", NULL)
    IN  InsertOp(h3, "e4", "e3", NULL)

\* a listener on the outermost element
EventListeners ==
    AddEventListenerOp([listeners |-> NoListeners, regs |-> <<>>],
                       "e1", "click", "cbReturn", "none")

\* the nodes and types the environment passes
EventNodes == Elements \cup ShadowRoots

RegTypes == {"click"}

AddEventListener(node, type, cb, options) ==
    /\ calls < MaxEventCalls
    /\ calls' = calls + 1
    /\ LET ev == AddEventListenerOp(Ev, node, type, cb, options)
       IN  /\ listeners' = ev.listeners
           /\ regs' = ev.regs
    /\ log' = <<>>
    /\ lastEvent' = NoEvent
    /\ UNCHANGED <<treeVars, last, cyclic, attrVars, markupVars, lowerVars, toolVars>>

RemoveEventListener(node, type, cb) ==
    /\ calls < MaxEventCalls
    /\ calls' = calls + 1
    /\ LET ev == RemoveEventListenerOp(Ev, node, type, cb)
       IN  /\ listeners' = ev.listeners
           /\ regs' = ev.regs
    /\ log' = <<>>
    /\ lastEvent' = NoEvent
    /\ UNCHANGED <<treeVars, last, cyclic, attrVars, markupVars, lowerVars, toolVars>>

\* the once closures registered on target for type see one more dispatch
CountDispatch(rs, target, type) ==
    [i \in 1..Len(rs) |->
        IF rs[i].node = target /\ rs[i].type = type
        THEN [rs[i] EXCEPT !.dispatches = @ + 1]
        ELSE rs[i]]

DispatchEvent(target, type, composed) ==
    /\ calls < MaxEventCalls
    /\ calls' = calls + 1
    /\ LET st == DispatchEventOp(Host, Ev, target, type, composed)
       IN  /\ listeners' = st.listeners
           /\ regs' = CountDispatch(st.regs, target, type)
           /\ log' = st.log
           /\ lastEvent' = [target |-> target, type |-> type, composed |-> composed,
                            threw |-> st.threw]
    /\ UNCHANGED <<treeVars, last, cyclic, attrVars, markupVars, lowerVars, toolVars>>

InitEvent ==
    /\ calls = 0
    /\ parent = EventTree.parent
    /\ children = EventTree.children
    /\ shadowRoot = EventTree.shadowRoot
    /\ last = NoCall
    /\ cyclic = FALSE
    /\ tagName = TagOf
    /\ attributes = [e \in Elements |-> <<>>]
    /\ lastAttr = NoAttrCall
    /\ styleCalls = NoStyleCalls
    /\ listeners = EventListeners.listeners
    /\ regs = EventListeners.regs
    /\ log = <<>>
    /\ lastEvent = NoEvent
    /\ NoMarkup
    /\ NoLowering
    /\ NoTools

NextEvent ==
    \/ \E node \in EventNodes, type \in RegTypes, cb \in Callbacks,
          options \in ListenerOptions : AddEventListener(node, type, cb, options)
    \/ \E node \in EventNodes, type \in RegTypes, cb \in Callbacks :
           RemoveEventListener(node, type, cb)
    \/ \E target \in EventNodes, type \in EventTypes, composed \in BOOLEAN :
           DispatchEvent(target, type, composed)

SpecEvent == InitEvent /\ [][NextEvent]_vars

(***************************************************************************)
(* Properties of listeners and dispatchEvent.                              *)
(***************************************************************************)
\* n and its ancestors, up to the first shadow root unless cross
RECURSIVE Up(_, _, _, _)
Up(h, n, cross, k) ==
    IF n = NULL \/ k = 0 \/ (n \in ShadowRoots /\ ~cross) THEN {}
    ELSE {n} \cup Up(h, h.parent[n], cross, k - 1)

Depth == Cardinality(Nodes \cup ShadowRoots) + 1

\* the elements from target up to the shadow root it is in
BelowBoundary(target) == Up(Host, target, FALSE, Depth) \cap Elements

\* the shadow host of target and the ancestors of the host
HostAndAbove(target) == (Up(Host, target, TRUE, Depth) \cap Elements) \ BelowBoundary(target)

\* the last dispatch invoked a callback at node n
Ran(n) == \E k \in 1..Len(log) : log[k].node = n

\* the last dispatch invoked every listener node n holds for type: the plain
\* ones are in the log, the once closures ran and are gone
AllRan(n, type) ==
    \A i \in 1..Len(listeners[n][type]) :
        /\ ~listeners[n][type][i].once
        /\ \E k \in 1..Len(log) : log[k].node = n /\ log[k].cb = listeners[n][type][i].cb

\* a callback of the last dispatch stopped the propagation, or threw
Interfered ==
    \E k \in 1..Len(log) :
        \/ CallsStopPropagation(log[k].cb)
        \/ CallsStopImmediatePropagation(log[k].cb)
        \/ Throws(log[k].cb)

\* a callback the last dispatch invoked at node n cut the loop over n's
\* listeners short, by stopImmediatePropagation or by throwing
CutShort(n) ==
    \E k \in 1..Len(log) :
        /\ log[k].node = n
        /\ (CallsStopImmediatePropagation(log[k].cb) \/ Throws(log[k].cb))

\* the once closure regs[i] is still in the Set it was added to
Registered(i) ==
    IndexOf(listeners[regs[i].node][regs[i].type], Wrapper(regs[i].cb, i)) # -1

\* C7: a listener registered with the once option is invoked at most once over
\* any number of dispatches and is removed after its first invocation, also
\* when its callback throws; after a dispatch of its type at its node in which
\* no listener of the node cut the loop short it has been invoked exactly once.
C7_OnceFiresOnce ==
    \A i \in 1..Len(regs) :
        /\ regs[i].invoked <= 1
        /\ regs[i].invoked = 1 => ~Registered(i)
        /\ (/\ regs[i].dispatches >= 1
            /\ lastEvent.target = regs[i].node
            /\ lastEvent.type = regs[i].type
            /\ ~(CutShort(regs[i].node) /\ regs[i].invoked = 0)) => regs[i].invoked = 1

\* a once listener whose callback throws, after two dispatches at its node
C7_Witness ==
    \E i \in 1..Len(regs) :
        /\ Throws(regs[i].cb)
        /\ regs[i].dispatches = 2
        /\ regs[i].invoked = 1
        /\ lastEvent.target = regs[i].node
        /\ lastEvent.type = regs[i].type

\* how many times the last dispatch invoked cb at node through a registration
\* with (once) or without the once option
Invocations(node, cb, once) ==
    Cardinality({k \in 1..Len(log) :
                    log[k].node = node /\ log[k].cb = cb /\ log[k].once = once})

\* C8: duplicate identical registrations collapse: a callback registered twice
\* on an element for a type with the same options, with or without once, is
\* invoked at most once by one dispatch of that type at that element.
C8_DuplicatesCollapse ==
    \A node \in Elements, cb \in Callbacks, once \in BOOLEAN :
        Invocations(node, cb, once) <= 1

\* C9: an event dispatched at an element inside a shadow root with composed not
\* true invokes no listener on the shadow host or above, only listeners from the
\* target up to the shadow root; with composed true it invokes the listeners of
\* the host and of the host's ancestors as well (no callback stopping the
\* propagation or throwing).
C9_ShadowBoundary ==
    (lastEvent.target \in Elements /\ HostAndAbove(lastEvent.target) # {}) =>
        /\ ~lastEvent.composed =>
               /\ \A n \in Elements : Ran(n) => n \in BelowBoundary(lastEvent.target)
               /\ ~Interfered =>
                      \A n \in BelowBoundary(lastEvent.target) : AllRan(n, lastEvent.type)
        /\ (lastEvent.composed /\ ~Interfered) =>
               \A n \in BelowBoundary(lastEvent.target) \cup HostAndAbove(lastEvent.target) :
                   AllRan(n, lastEvent.type)

\* listeners on the target, on the host and above the host, and a dispatch that
\* crossed the boundary
C9_WitnessComposed ==
    /\ lastEvent.target = "e4"
    /\ lastEvent.composed
    /\ Ran("e4") /\ Ran("e2") /\ Ran("e1")

\* C10: once a listener calls stopPropagation the remaining listeners of the
\* current node still run and no listener on any ancestor runs; once a listener
\* calls stopImmediatePropagation no further listener runs at all.
C10_StopPropagation ==
    \A k \in 1..Len(log) :
        /\ CallsStopPropagation(log[k].cb) =>
               /\ \A m \in (k + 1)..Len(log) : log[m].node = log[k].node
               /\ ~CutShort(log[k].node) => AllRan(log[k].node, lastEvent.type)
        /\ CallsStopImmediatePropagation(log[k].cb) => k = Len(log)

\* a node with a listener that calls stopPropagation and then another listener,
\* both invoked, below an ancestor that holds a listener
C10_Witness ==
    /\ Len(log) = 2
    /\ CallsStopPropagation(log[1].cb)
    /\ log[2].node = log[1].node
    /\ \E n \in Up(Host, Host.parent[log[1].node], TRUE, Depth) \cap Elements :
           listeners[n][lastEvent.type] # <<>>

\* C29: after removeEventListener(node, type, cb) no later dispatch of an event
\* of that type invokes cb through that node, however cb was registered on it,
\* also with the once option and not fired yet.
C29_RemovedNeverInvoked ==
    \A node \in Elements, cb \in Callbacks, target \in Elements, composed \in BOOLEAN :
        LET removed == RemoveEventListenerOp(Ev, node, "click", cb)
            run == DispatchEventOp(Host, removed, target, "click", composed)
        IN  \A k \in 1..Len(run.log) : ~(run.log[k].node = node /\ run.log[k].cb = cb)


(***************************************************************************)
(* generateMarkup, the generator addGenerateMarkupExport adds to a         *)
(* component, and tmpl, the generator compileTemplate exports.  A tag name *)
(* is a sequence of characters; a chunk is a string.                       *)
(***************************************************************************)
\* how many chunks the template content yields at most
MaxChunks == 2

\* how many chunks __renderAttrs yields at most
MaxAttrChunks == 1

\* String.prototype.toUpperCase and toLowerCase, on the letters of the model
UpperOf(ch) == CASE ch = "x" -> "X" [] ch = "a" -> "A" [] OTHER -> ch

LowerOf(ch) == CASE ch = "X" -> "x" [] ch = "A" -> "a" [] OTHER -> ch

toUpperCase(chars) == [i \in 1..Len(chars) |-> UpperOf(chars[i])]

toLowerCase(chars) == [i \in 1..Len(chars) |-> LowerOf(chars[i])]

\* the string of a sequence of characters
RECURSIVE Text(_)
Text(chars) == IF chars = <<>> THEN "" ELSE Head(chars) \o Text(Tail(chars))

\* the tagName arguments
TagNames == {<<"x", "-", "a">>, <<"X", "-", "a">>}

\* the stylesheets a component can have registered: defaultStylesheets,
\* defaultScopedStylesheets of the template module, Cmp.stylesheets
StylesheetSets == {{}, {"default"}, {"scoped"}, {"static"}}

\* the components: what addGenerateMarkupExport knows of the class
\* (wireAdapters, hasRenderMethod), what the class and the template module
\* hold at run time, and the arguments of the generateMarkup call
Components ==
    [tagName : TagNames,
     wireAdapters : BOOLEAN,
     hasRenderMethod : BOOLEAN,
     template : {"tmpl", "undefined"},
     connectedCallback : {"none", "returns", "throws"},
     renderMode : {"shadow", "shadowDelegatesFocus", "light"},
     stylesheets : StylesheetSets,
     slottedShadow : BOOLEAN,
     content : 0..MaxChunks,
     attrs : 0..MaxAttrChunks]

isLightDom(c) == c.renderMode = "light"

\* tmplFn: the template function, or __fallbackTmpl when the expression is
\* null or undefined
tmplFn(c) == IF c.template = "undefined" THEN "__fallbackTmpl" ELSE c.template

\* one thing generateMarkup did: a call it made (ev, arg) or a chunk it
\* yielded (ev = "yield", arg the chunk, from the statement that yielded it)
Did(ev, arg) == [ev |-> ev, arg |-> arg, from |-> ""]

Yield(chunk, from) == [ev |-> "yield", arg |-> chunk, from |-> from]

\* the chunks a delegated generator yields: n chunks made of text
Chunks(n, text, from) == [i \in 1..n |-> Yield(text, from)]


\* generateMarkup that connects the wire adapters after the internal state is set
GmNextWireLate(c, p) ==
    CASE p = "construct" -> "establish"
      [] p = "establish" -> "setInternals"
      [] p = "setInternals" -> IF c.wireAdapters THEN "connectWire" ELSE "isConnected"
      [] p = "connectWire" -> "isConnected"
      [] p = "isConnected" -> IF c.connectedCallback # "none" THEN "enable" ELSE "tmplFn"
      [] p = "enable" -> "connectedCallback"
      [] p = "connectedCallback" ->
             IF c.connectedCallback = "throws" THEN "thrown" ELSE "disable"
      [] p = "disable" -> "tmplFn"
      [] p = "tmplFn" -> "openTag"
      [] p = "openTag" -> "renderAttrs"
      [] p = "renderAttrs" -> "tagEnd"
      [] p = "tagEnd" -> "callTmpl"
      [] p = "callTmpl" -> IF tmplFn(c) = "__fallbackTmpl" THEN "closeTag" ELSE "tmpl"
      [] p = "return" -> "closeTag"
      [] p = "closeTag" -> "done"

\* generateMarkup that runs connectedCallback after the template function is selected
GmNextCallbackLate(c, p) ==
    CASE p = "construct" -> "establish"
      [] p = "establish" -> IF c.wireAdapters THEN "connectWire" ELSE "setInternals"
      [] p = "connectWire" -> "setInternals"
      [] p = "setInternals" -> "isConnected"
      [] p = "isConnected" -> "tmplFn"
      [] p = "tmplFn" -> IF c.connectedCallback # "none" THEN "enable" ELSE "openTag"
      [] p = "enable" -> "connectedCallback"
      [] p = "connectedCallback" ->
             IF c.connectedCallback = "throws" THEN "thrown" ELSE "disable"
      [] p = "disable" -> "openTag"
      [] p = "openTag" -> "renderAttrs"
      [] p = "renderAttrs" -> "tagEnd"
      [] p = "tagEnd" -> "callTmpl"
      [] p = "callTmpl" -> IF tmplFn(c) = "__fallbackTmpl" THEN "closeTag" ELSE "tmpl"
      [] p = "return" -> "closeTag"
      [] p = "closeTag" -> "done"

\* generateMarkup that delegates to the template function before it yields '>'
GmNextTmplEarly(c, p) ==
    CASE p = "construct" -> "establish"
      [] p = "establish" -> IF c.wireAdapters THEN "connectWire" ELSE "setInternals"
      [] p = "connectWire" -> "setInternals"
      [] p = "setInternals" -> "isConnected"
      [] p = "isConnected" -> IF c.connectedCallback # "none" THEN "enable" ELSE "tmplFn"
      [] p = "enable" -> "connectedCallback"
      [] p = "connectedCallback" ->
             IF c.connectedCallback = "throws" THEN "thrown" ELSE "disable"
      [] p = "disable" -> "tmplFn"
      [] p = "tmplFn" -> "openTag"
      [] p = "openTag" -> "renderAttrs"
      [] p = "renderAttrs" -> "callTmpl"
      [] p = "callTmpl" -> IF tmplFn(c) = "__fallbackTmpl" THEN "tagEnd" ELSE "tmpl"
      [] p = "return" -> "tagEnd"
      [] p = "tagEnd" -> "closeTag"
      [] p = "closeTag" -> "done"

\* the statement generateMarkup runs after statement p; "tmpl" enters the
\* template function, "thrown" and "done" end the generator
GmNext(c, p) ==
    CASE p = "construct" -> "establish"
      [] p = "establish" -> IF c.wireAdapters THEN "connectWire" ELSE "setInternals"
      [] p = "connectWire" -> "setInternals"
      [] p = "setInternals" -> "isConnected"
      [] p = "isConnected" -> IF c.connectedCallback # "none" THEN "enable" ELSE "tmplFn"
      [] p = "enable" -> "connectedCallback"
      [] p = "connectedCallback" ->
             IF c.connectedCallback = "throws" THEN "thrown" ELSE "disable"
      [] p = "disable" -> "tmplFn"
      [] p = "tmplFn" -> "openTag"
      [] p = "openTag" -> "renderAttrs"
      [] p = "renderAttrs" -> "tagEnd"
      [] p = "tagEnd" -> "callTmpl"
      [] p = "callTmpl" -> IF tmplFn(c) = "__fallbackTmpl" THEN "closeTag" ELSE "tmpl"
      [] p = "return" -> "closeTag"
      [] p = "closeTag" -> "done"

\* tmpl that delegates to slottedContent.shadow before it closes the wrapper
TmplNextSlotFirst(c, p) ==
    CASE p = "tmpl" -> IF ~isLightDom(c) THEN "openWrapper" ELSE "stylesheets"
      [] p = "openWrapper" -> "stylesheets"
      [] p = "stylesheets" -> "content"
      [] p = "content" -> IF ~isLightDom(c) THEN "slottedShadow" ELSE "return"
      [] p = "slottedShadow" -> "closeWrapper"
      [] p = "closeWrapper" -> "return"

\* tmpl that yields the stylesheets after the content of the template
TmplNextStylesLate(c, p) ==
    CASE p = "tmpl" -> IF ~isLightDom(c) THEN "openWrapper" ELSE "content"
      [] p = "openWrapper" -> "content"
      [] p = "content" -> "stylesheets"
      [] p = "stylesheets" -> IF ~isLightDom(c) THEN "closeWrapper" ELSE "return"
      [] p = "closeWrapper" -> "slottedShadow"
      [] p = "slottedShadow" -> "return"

\* the statement tmpl runs after statement p; "return" goes back to the
\* generator that delegated to it
TmplNext(c, p) ==
    CASE p = "tmpl" -> IF ~isLightDom(c) THEN "openWrapper" ELSE "stylesheets"
      [] p = "openWrapper" -> "stylesheets"
      [] p = "stylesheets" -> "content"
      [] p = "content" -> IF ~isLightDom(c) THEN "closeWrapper" ELSE "return"
      [] p = "closeWrapper" -> "slottedShadow"
      [] p = "slottedShadow" -> "return"

\* the statement after p, through the calls and returns of the generators
After(c, p) ==
    LET q == IF p \in {"tmpl", "openWrapper", "stylesheets", "content", "closeWrapper",
                       "slottedShadow"}
             THEN TmplNext(c, p) ELSE GmNext(c, p)
        r == IF q = "tmpl" THEN TmplNext(c, q) ELSE q
    IN  IF r = "return" THEN GmNext(c, r) ELSE r

\* statement p runs and does what events lists
Step(p, events) ==
    /\ pc = p
    /\ trace' = trace \o events
    /\ pc' = After(component, p)
    /\ UNCHANGED <<calls, treeVars, last, cyclic, attrVars, eventVars, component, lowerVars, toolVars>>

\* attrs = attrs ?? ..., props = __filterProperties(...), instance = new Cmp({tagName})
Construct ==
    /\ Step("construct", <<Did("__filterProperties", "props"),
                           Did("new", Text(toUpperCase(component.tagName)))>>)
    /\ UNCHANGED tracker

\* __establishContextfulRelationship(parent, instance)
EstablishContextfulRelationship ==
    /\ Step("establish", <<Did("__establishContextfulRelationship", "parent, instance")>>)
    /\ UNCHANGED tracker

\* the statements of bWireAdaptersPlumbing(state.wireAdapters)
ConnectWire ==
    /\ Step("connectWire", <<Did("connectWire", "instance")>>)
    /\ UNCHANGED tracker

\* instance[__SYMBOL__SET_INTERNALS](props, attrs)
SetInternals ==
    /\ Step("setInternals", <<Did("__SYMBOL__SET_INTERNALS", "props, attrs")>>)
    /\ UNCHANGED tracker

\* instance.isConnected = true
IsConnected ==
    /\ Step("isConnected", <<Did("isConnected", "true")>>)
    /\ UNCHANGED tracker

\* __mutationTracker.enable(instance)
MutationTrackerEnable ==
    /\ Step("enable", <<Did("__mutationTracker.enable", "instance")>>)
    /\ tracker' = TRUE

\* instance.connectedCallback(), which returns or throws
ConnectedCallback ==
    /\ Step("connectedCallback",
            <<Did("connectedCallback", "")>>
            \o IF component.connectedCallback = "throws" THEN <<Did("throw", "")>> ELSE <<>>)
    /\ UNCHANGED tracker

\* __mutationTracker.disable(instance)
MutationTrackerDisable ==
    /\ Step("disable", <<Did("__mutationTracker.disable", "instance")>>)
    /\ tracker' = FALSE


\* const tmplFn = <tmpl or instance.render()> ?? __fallbackTmpl
SelectTmplFn ==
    /\ Step("tmplFn",
            (IF component.hasRenderMethod THEN <<Did("render", "")>> ELSE <<>>)
            \o <<Did("tmplFn", tmplFn(component))>>)
    /\ UNCHANGED tracker

\* yield `<${tagName}`
YieldOpenTag ==
    /\ Step("openTag", <<Yield("<" \o Text(component.tagName), "openTag")>>)
    /\ UNCHANGED tracker

\* tmplFn.hasScopedStylesheets || hasScopedStaticStylesheets(Cmp), static
\* stylesheets being unscoped in the model; __fallbackTmpl has no stylesheets
hostHasScopedStylesheets(c) == tmplFn(c) # "__fallbackTmpl" /\ "scoped" \in c.stylesheets

hostScopeToken(c) == IF hostHasScopedStylesheets(c) THEN "token-host" ELSE "undefined"

\* the chunks __renderAttrs(instance, attrs, hostScopeToken, scopeToken) yields
renderAttrs(c) == Chunks(c.attrs, " title=\"t\"", "renderAttrs")

\* yield* __renderAttrs(instance, attrs, hostScopeToken, scopeToken)
RenderAttrs ==
    /\ Step("renderAttrs",
            <<Did("__renderAttrs", "instance, attrs, " \o hostScopeToken(component)
                                   \o ", scopeToken")>>
            \o renderAttrs(component))
    /\ UNCHANGED tracker

\* yield '>'
YieldTagEnd ==
    /\ Step("tagEnd", <<Yield(">", "tagEnd")>>)
    /\ UNCHANGED tracker

\* yield* tmplFn(props, attrs, slotted, Cmp, instance); __fallbackTmpl is
\* the empty template and yields nothing
CallTmplFn ==
    /\ Step("callTmpl", <<Did(tmplFn(component), "props, attrs, slotted, Cmp, instance")>>)
    /\ UNCHANGED tracker

\* tmpl: yield `<template shadowrootmode="open"...>`, unless isLightDom
TmplOpenWrapper ==
    /\ Step("openWrapper",
            <<Yield("<template shadowrootmode=\"open\""
                    \o (IF component.renderMode = "shadowDelegatesFocus"
                        THEN " shadowrootdelegatesfocus" ELSE "")
                    \o ">", "openWrapper")>>)
    /\ UNCHANGED tracker

\* tmpl: yield renderStylesheets(...), if a stylesheet is registered
TmplStylesheets ==
    /\ Step("stylesheets",
            IF component.stylesheets # {}
            THEN <<Did("renderStylesheets", "stylesheets, stylesheetScopeToken, Cmp"),
                   Yield("<style></style>", "stylesheets")>>
            ELSE <<>>)
    /\ UNCHANGED tracker

\* tmpl: the statements of the template, that yield its content
TmplContent ==
    /\ Step("content", Chunks(component.content, "<p></p>", "content"))
    /\ UNCHANGED tracker

\* tmpl: yield '</template>', unless isLightDom
TmplCloseWrapper ==
    /\ Step("closeWrapper", <<Yield("</template>", "closeWrapper")>>)
    /\ UNCHANGED tracker

\* tmpl: yield* slottedContent.shadow(instance), if slottedContent?.shadow
TmplSlottedShadow ==
    /\ Step("slottedShadow",
            IF component.slottedShadow
            THEN <<Did("slottedContent.shadow", "instance"),
                   Yield("<span></span>", "slottedShadow")>>
            ELSE <<>>)
    /\ UNCHANGED tracker

\* yield `</${tagName}>`
YieldCloseTag ==
    /\ Step("closeTag", <<Yield("</" \o Text(component.tagName) \o ">", "closeTag")>>)
    /\ UNCHANGED tracker

\* generateMarkup(tagName, props, attrs, slotted, parent, scopeToken) was
\* called for some component: the generator is at its first statement
InitMarkup ==
    /\ calls = 0
    /\ parent = EmptyHost.parent
    /\ children = EmptyHost.children
    /\ shadowRoot = EmptyHost.shadowRoot
    /\ last = NoCall
    /\ cyclic = FALSE
    /\ tagName = TagOf
    /\ attributes = [e \in Elements |-> <<>>]
    /\ lastAttr = NoAttrCall
    /\ styleCalls = NoStyleCalls
    /\ InitEvents
    /\ component \in Components
    /\ pc = "construct"
    /\ trace = <<>>
    /\ tracker = FALSE
    /\ NoLowering
    /\ NoTools

NextMarkup ==
    \/ Construct
    \/ EstablishContextfulRelationship
    \/ ConnectWire
    \/ SetInternals
    \/ IsConnected
    \/ MutationTrackerEnable
    \/ ConnectedCallback
    \/ MutationTrackerDisable
    \/ SelectTmplFn
    \/ YieldOpenTag
    \/ RenderAttrs
    \/ YieldTagEnd
    \/ CallTmplFn
    \/ TmplOpenWrapper
    \/ TmplStylesheets
    \/ TmplContent
    \/ TmplCloseWrapper
    \/ TmplSlottedShadow
    \/ YieldCloseTag

SpecMarkup == InitMarkup /\ [][NextMarkup]_vars

\* the chunks yielded so far, in order
ChunkEvents == SelectSeq(trace, LAMBDA e : e.ev = "yield")

RECURSIVE Concat(_)
Concat(events) == IF events = <<>> THEN "" ELSE Head(events).arg \o Concat(Tail(events))

\* the markup: the chunks yielded, concatenated
Markup == Concat(ChunkEvents)

MarkupTypeOK == pc \in {"construct", "establish", "connectWire", "setInternals",
                        "isConnected", "enable", "connectedCallback", "disable", "tmplFn",
                        "openTag", "renderAttrs", "tagEnd", "callTmpl", "openWrapper",
                        "stylesheets", "content", "closeWrapper", "slottedShadow",
                        "closeTag", "done", "thrown"}


(***************************************************************************)
(* Properties of generateMarkup and tmpl.                                  *)
(***************************************************************************)
\* where in the trace generateMarkup did ev
Pos(ev) == {i \in 1..Len(trace) : trace[i].ev = ev}

\* where in the trace the statement named from yielded a chunk
PosFrom(from) == {i \in Pos("yield") : trace[i].from = from}

\* everything at the places of I comes before everything at the places of J
Precedes(I, J) == \A i \in I, j \in J : i < j

AtMostOnce(I) == Cardinality(I) <= 1

\* C11: before its first chunk generateMarkup establishes the context
\* relationship of parent and instance, then connects the wire adapters (when
\* and only when adapters are declared), then sets the internal state, then
\* marks the instance connected, each once and in this order; the wire
\* adapters are never connected after the internal state is set.
C11_SetupOrder ==
    /\ AtMostOnce(Pos("__establishContextfulRelationship"))
    /\ AtMostOnce(Pos("connectWire"))
    /\ AtMostOnce(Pos("__SYMBOL__SET_INTERNALS"))
    /\ AtMostOnce(Pos("isConnected"))
    /\ Precedes(Pos("__establishContextfulRelationship"), Pos("connectWire"))
    /\ Precedes(Pos("connectWire"), Pos("__SYMBOL__SET_INTERNALS"))
    /\ Precedes(Pos("__SYMBOL__SET_INTERNALS"), Pos("isConnected"))
    /\ Precedes(Pos("isConnected"), Pos("yield"))
    /\ Pos("connectWire") # {} => component.wireAdapters
    /\ Pos("__SYMBOL__SET_INTERNALS") # {} =>
           /\ Pos("__establishContextfulRelationship") # {}
           /\ component.wireAdapters => Pos("connectWire") # {}
    /\ Pos("isConnected") # {} => Pos("__SYMBOL__SET_INTERNALS") # {}
    /\ Pos("yield") # {} => Pos("isConnected") # {}

\* a generator of a component with wire adapters that yielded its first chunk
C11_Witness ==
    /\ component.wireAdapters
    /\ Pos("connectWire") # {}
    /\ Pos("yield") # {}

\* C12: connectedCallback, when the instance has one, is invoked once, after
\* __mutationTracker.enable(instance) and before __mutationTracker.disable(instance),
\* after the instance is marked connected, before the template function is
\* selected or invoked and before any chunk; without a connectedCallback the
\* tracker is never enabled.
C12_CallbackBracketed ==
    /\ AtMostOnce(Pos("connectedCallback"))
    /\ AtMostOnce(Pos("__mutationTracker.enable"))
    /\ AtMostOnce(Pos("__mutationTracker.disable"))
    /\ Precedes(Pos("__mutationTracker.enable"), Pos("connectedCallback"))
    /\ Precedes(Pos("connectedCallback"), Pos("__mutationTracker.disable"))
    /\ Precedes(Pos("isConnected"), Pos("connectedCallback"))
    /\ Precedes(Pos("connectedCallback"),
                Pos("render") \cup Pos("tmplFn") \cup Pos("tmpl") \cup Pos("__fallbackTmpl")
                \cup Pos("yield"))
    /\ Pos("connectedCallback") # {} =>
           Pos("__mutationTracker.enable") # {} /\ Pos("isConnected") # {}
    /\ Pos("__mutationTracker.disable") # {} => Pos("connectedCallback") # {}
    /\ component.connectedCallback # "none" /\ Pos("tmplFn") # {} =>
           Pos("connectedCallback") # {} /\ Pos("__mutationTracker.disable") # {}
    /\ component.connectedCallback = "none" =>
           /\ Pos("__mutationTracker.enable") = {}
           /\ Pos("connectedCallback") = {}
           /\ ~tracker

\* a generator whose instance has a connectedCallback, which returned, and
\* that yielded a chunk
C12_Witness ==
    /\ component.connectedCallback = "returns"
    /\ Pos("connectedCallback") # {}
    /\ Pos("yield") # {}

\* C30: the mutation tracker is enabled for the instance only while its
\* connectedCallback executes: on every exit of the lifecycle section of
\* generateMarkup, the exit by a throwing connectedCallback included, the
\* tracker has been disabled for the instance.
C30_TrackerOnlyInCallback ==
    tracker => pc \in {"connectedCallback", "disable"}


\* the statements of tmpl
TmplStatements == {"openWrapper", "stylesheets", "content", "closeWrapper", "slottedShadow"}

\* where in the trace the template function yielded a chunk
TmplChunks == {i \in Pos("yield") : trace[i].from \in TmplStatements}

\* the place of a chunk in the stream of generateMarkup
Rank(from) ==
    CASE from = "openTag" -> 1
      [] from = "renderAttrs" -> 2
      [] from = "tagEnd" -> 3
      [] from \in TmplStatements -> 4
      [] from = "closeTag" -> 5

\* C13: the chunks of generateMarkup are, in order, the opening tag
\* '<tagName', the host attribute chunks, '>', the chunks of the template
\* function, called with (props, attrs, slotted, Cmp, instance), and the
\* closing tag '</tagName>'; no template chunk precedes '>' and nothing
\* follows the closing tag.
C13_ChunkStream ==
    LET chunks == ChunkEvents IN
    /\ \A i, j \in 1..Len(chunks) : i < j => Rank(chunks[i].from) <= Rank(chunks[j].from)
    /\ AtMostOnce(PosFrom("openTag"))
    /\ AtMostOnce(PosFrom("tagEnd"))
    /\ AtMostOnce(PosFrom("closeTag"))
    /\ AtMostOnce(Pos(tmplFn(component)))
    /\ Precedes(PosFrom("tagEnd"), Pos(tmplFn(component)))
    /\ Precedes(Pos(tmplFn(component)), TmplChunks)
    /\ TmplChunks # {} => Pos(tmplFn(component)) # {}
    /\ \A i \in Pos(tmplFn(component)) : trace[i].arg = "props, attrs, slotted, Cmp, instance"
    /\ PosFrom("closeTag") = {} \/ trace[Len(trace)].from = "closeTag"
    /\ pc = "done" =>
           /\ chunks = <<Yield("<" \o Text(component.tagName), "openTag")>>
                       \o renderAttrs(component)
                       \o <<Yield(">", "tagEnd")>>
                       \o SelectSeq(chunks, LAMBDA e : e.from \in TmplStatements)
                       \o <<Yield("</" \o Text(component.tagName) \o ">", "closeTag")>>
           /\ Pos(tmplFn(component)) # {}

\* a finished generator with host attributes and template content
C13_Witness ==
    /\ pc = "done"
    /\ component.attrs > 0
    /\ PosFrom("content") # {}
    /\ PosFrom("renderAttrs") # {}

\* C14: for a component with no render() method and no wire adapters, no
\* host attribute chunk and a template that yields nothing, the markup is
\* '<tag-name></tag-name>' with the tagName argument upper-cased, then
\* lower-cased.
C14_EmptyComponentMarkup ==
    LET lowered == Text(toLowerCase(toUpperCase(component.tagName))) IN
    (/\ pc = "done"
     /\ ~component.hasRenderMethod
     /\ ~component.wireAdapters
     /\ component.attrs = 0
     /\ TmplChunks = {})
    => Markup = "<" \o lowered \o "></" \o lowered \o ">"


\* the compiled template function returned to generateMarkup
TmplReturned == tmplFn(component) = "tmpl" /\ pc \in {"closeTag", "done"}

\* the opening wrapper of a shadow root
OpenWrapperText(c) ==
    IF c.renderMode = "shadowDelegatesFocus"
    THEN "<template shadowrootmode=\"open\" shadowrootdelegatesfocus>"
    ELSE "<template shadowrootmode=\"open\">"

\* C15: when the render mode is not light, the first chunk of tmpl is the
\* opening '<template shadowrootmode="open"...>' wrapper, before any template
\* content, the closing '</template>' comes after all template content, and
\* slottedContent.shadow(instance) is delegated to after the closing wrapper
\* and only when slottedContent.shadow exists; when the render mode is light
\* neither wrapper is yielded and slottedContent.shadow is never invoked.
C15_ShadowWrapper ==
    /\ AtMostOnce(PosFrom("openWrapper"))
    /\ AtMostOnce(PosFrom("closeWrapper"))
    /\ AtMostOnce(Pos("slottedContent.shadow"))
    /\ ~isLightDom(component) =>
           /\ \A i \in TmplChunks : \E j \in PosFrom("openWrapper") : j <= i
           /\ \A j \in PosFrom("openWrapper") : trace[j].arg = OpenWrapperText(component)
           /\ Precedes(PosFrom("openWrapper"), PosFrom("content"))
           /\ Precedes(PosFrom("content"), PosFrom("closeWrapper"))
           /\ \A i \in Pos("slottedContent.shadow") \cup PosFrom("slottedShadow") :
                  \E j \in PosFrom("closeWrapper") : j < i
           /\ \A i \in Pos("slottedContent.shadow") : trace[i].arg = "instance"
           /\ Pos("slottedContent.shadow") # {} => component.slottedShadow
           /\ TmplReturned =>
                  /\ PosFrom("openWrapper") # {}
                  /\ PosFrom("closeWrapper") # {}
                  /\ Cardinality(PosFrom("content")) = component.content
                  /\ component.slottedShadow => Pos("slottedContent.shadow") # {}
    /\ isLightDom(component) =>
           /\ PosFrom("openWrapper") = {}
           /\ PosFrom("closeWrapper") = {}
           /\ Pos("slottedContent.shadow") = {}
           /\ PosFrom("slottedShadow") = {}

\* a shadow template with content returned after it delegated to slottedContent.shadow
C15_Witness ==
    /\ TmplReturned
    /\ ~isLightDom(component)
    /\ PosFrom("content") # {}
    /\ Pos("slottedContent.shadow") # {}

\* a light template with content returned, slottedContent.shadow existing
C15_WitnessLight ==
    /\ TmplReturned
    /\ isLightDom(component)
    /\ component.slottedShadow
    /\ PosFrom("content") # {}

\* C16 as stated: when a default, default-scoped or static stylesheet is
\* registered tmpl yields exactly one stylesheet chunk, before the shadow
\* wrapper and before all template content; when none is registered it
\* yields no stylesheet chunk.
C16_StylesheetFirst ==
    /\ AtMostOnce(PosFrom("stylesheets"))
    /\ component.stylesheets = {} => PosFrom("stylesheets") = {}
    /\ Precedes(PosFrom("stylesheets"), PosFrom("openWrapper") \cup PosFrom("content"))
    /\ TmplReturned /\ component.stylesheets # {} => PosFrom("stylesheets") # {}

\* C16, amended: when a default, default-scoped or static stylesheet is
\* registered tmpl yields exactly one stylesheet chunk, before all template
\* content and before the closing wrapper; it is the first chunk of tmpl when
\* the render mode is light and the chunk right after the opening wrapper
\* otherwise; when none is registered it yields no stylesheet chunk.
C16_StylesheetBeforeContent ==
    /\ AtMostOnce(PosFrom("stylesheets"))
    /\ component.stylesheets = {} => PosFrom("stylesheets") = {}
    /\ Precedes(PosFrom("stylesheets"), PosFrom("content") \cup PosFrom("closeWrapper"))
    /\ \A i \in PosFrom("stylesheets") :
           IF isLightDom(component)
           THEN \A j \in TmplChunks : i <= j
           ELSE trace[i - 2].from = "openWrapper"
    /\ TmplReturned /\ component.stylesheets # {} => PosFrom("stylesheets") # {}

\* a shadow template with a stylesheet and content returned
C16_Witness ==
    /\ TmplReturned
    /\ ~isLightDom(component)
    /\ component.stylesheets # {}
    /\ PosFrom("content") # {}


(***************************************************************************)
(* The Component transformer, which lowers a child component of a template *)
(* to the block that calls the child's generateMarkup.                     *)
(***************************************************************************)
\* how many attributes a node of the template IR has at most
MaxIrAttributes == 2

\* how many children the child component has at most
MaxIrChildren == 2

\* the values of the IR: a literal, an identifier, or a node that
\* getChildAttrsOrProps does not implement
Literal(value) == [type |-> "Literal", value |-> value]

Identifier(name) == [type |-> "Identifier", value |-> Str(name)]

CallExpression(name) == [type |-> "CallExpression", value |-> Str(name)]

\* IrAttribute and IrProperty
IrAttribute(name, value) == [name |-> name, value |-> value, type |-> "Attribute"]

IrProperty(name, value) == [name |-> name, value |-> value, type |-> "Property"]

\* normalizeStyleAttributeValue of @lwc/shared, on the values of the model
normalizeStyleAttributeValue(text) ==
    CASE text = "color:red" -> "color: red;" [] OTHER -> text

\* normalizeClassAttributeValue of ../shared, on the values of the model:
\* the class names, separated by one space
normalizeClassAttributeValue(text) ==
    CASE text = " a " -> "a" [] text = " " -> "" [] OTHER -> text

\* the names on the stack of local-variable frames
InScope(stack) == UNION {stack[i] : i \in 1..Len(stack)}

\* expressionIrToEs(value, cxt): a local variable is referred to by its name,
\* anything else is a member of instance
expressionIrToEs(value, stack) ==
    IF value.value.v \in InScope(stack)
    THEN value.value.v
    ELSE "instance." \o value.value.v

\* b.property('init', key, value), value a literal or an expression
EsProperty(name, kind, value) == [key |-> name, kind |-> kind, value |-> value]

\* what the callback of attrs.map returns for one attribute or property:
\* a property, undefined (type "undefined"), or it throws (type "throw")
ChildAttrOrProp(attr, stack) ==
    IF attr.value.type = "Literal" /\ attr.value.value.t = "string"
    THEN LET literalValue ==
                 CASE attr.name = "style" -> normalizeStyleAttributeValue(attr.value.value.v)
                   [] attr.name = "class" -> normalizeClassAttributeValue(attr.value.value.v)
                   [] OTHER -> attr.value.value.v
         IN  IF attr.name = "class" /\ literalValue = ""
             THEN [type |-> "undefined"]
             ELSE [type |-> "Property",
                   property |-> EsProperty(attr.name, "literal", Str(literalValue))]
    ELSE IF attr.value.type = "Literal" /\ attr.value.value.t = "boolean"
    THEN IF attr.name = "class"
         THEN [type |-> "undefined"]
         ELSE [type |-> "Property",
               property |-> EsProperty(attr.name, "literal",
                                       IF attr.type = "Attribute"
                                       THEN Str("") ELSE attr.value.value)]
    ELSE IF attr.value.type \in {"Identifier", "MemberExpression"}
    THEN [type |-> "Property",
          property |-> EsProperty(attr.name, "expression",
                                  Str(expressionIrToEs(attr.value, stack)))]
    ELSE [type |-> "throw"]

\* getChildAttrsOrProps(attrs, cxt): the properties of the object expression,
\* or the Error thrown for a value it does not implement
getChildAttrsOrProps(attrs, stack) ==
    LET mapped == [i \in 1..Len(attrs) |-> ChildAttrOrProp(attrs[i], stack)]
        kept == SelectSeq(mapped, LAMBDA m : m.type = "Property")
    IN  [throws |-> \E i \in 1..Len(mapped) : mapped[i].type = "throw",
         properties |-> [i \in 1..Len(kept) |-> kept[i].property]]


\* the children of the IR: a Text has no attributes, an Element has
\* attributes and Text children, a ScopedSlotFragment binds slotData
IrText(value) == [type |-> "Text", value |-> value]

IrElement(name, attrs, kids) ==
    [type |-> "Element", name |-> name, attributes |-> attrs, children |-> kids]

IrScopedSlotFragment(slotName, variable, kids) ==
    [type |-> "ScopedSlotFragment", slotName |-> Literal(Str(slotName)),
     slotData |-> Identifier(variable), children |-> kids]

\* a statement of the generated code that yields a literal or an expression
YieldLiteral(text) == [yield |-> "literal", text |-> text]

YieldExpression(text) == [yield |-> "expression", text |-> text]

\* irToEs of ../ir-to-es for a Text: a yield of its text or of its expression
TextToEs(node, stack) ==
    IF node.value.type = "Literal"
    THEN <<YieldLiteral(node.value.value.v)>>
    ELSE <<YieldExpression(expressionIrToEs(node.value, stack))>>

RECURSIVE FlatMap(_, _)
FlatMap(Op(_), list) ==
    IF list = <<>> THEN <<>> ELSE Op(Head(list)) \o FlatMap(Op, Tail(list))

\* irToEs(node, cxt) of ../ir-to-es: the statements that yield the node, for
\* an Element its tag, its attributes, its children and its closing tag
irToEs(node, stack) ==
    IF node.type = "Text"
    THEN TextToEs(node, stack)
    ELSE LET AttrToEs(attr) ==
                 <<YieldLiteral(" " \o attr.name \o "=\"" \o attr.value.value.v \o "\"")>>
             KidToEs(kid) == TextToEs(kid, stack)
         IN  <<YieldLiteral("<" \o node.name)>>
             \o FlatMap(AttrToEs, node.attributes)
             \o <<YieldLiteral(">")>>
             \o FlatMap(KidToEs, node.children)
             \o <<YieldLiteral("</" \o node.name \o ">")>>

\* irChildrenToEs(children, cxt) of ../ir-to-es
irChildrenToEs(kids, stack) ==
    LET KidToEs(kid) == irToEs(kid, stack) IN FlatMap(KidToEs, kids)

\* optimizeAdjacentYieldStmts of ../shared: adjacent yields of literals
\* become one yield of their concatenation
RECURSIVE optimizeAdjacentYieldStmts(_)
optimizeAdjacentYieldStmts(statements) ==
    IF Len(statements) < 2
    THEN statements
    ELSE IF statements[1].yield = "literal" /\ statements[2].yield = "literal"
    THEN optimizeAdjacentYieldStmts(
             <<YieldLiteral(statements[1].text \o statements[2].text)>>
             \o SubSeq(statements, 3, Len(statements)))
    ELSE <<statements[1]>> \o optimizeAdjacentYieldStmts(Tail(statements))

\* bAttributeValue(node, attrName) of ../shared: the literal of the
\* attribute, the null literal when the node has no such attribute
bAttributeValue(node, attrName) ==
    LET found == SelectSeq(node.attributes, LAMBDA attr : attr.name = attrName)
    IN  IF found = <<>> THEN NullV ELSE found[1].value.value

\* bAddContent: the call addContent(<slot name> ?? "", async function* (<variable>) {...})
bAddContent(slotName, variable, slotContent) ==
    [name |-> IF slotName \in {NullV, UndefinedV} THEN "" ELSE slotName.v,
     variable |-> variable,
     content |-> slotContent]

\* toPropertyName and kebabcaseToCamelcase of @lwc/template-compiler, on the
\* tag names of the model
kebabcaseToCamelcase(name) == CASE name = "x-child" -> "xChild" [] OTHER -> name

\* cxt.pushLocalVars(vars) and cxt.popLocalVars()
pushLocalVars(stack, names) == Append(stack, names)

popLocalVars(stack) == SubSeq(stack, 1, Len(stack) - 1)


\* produce that changes the node it is given
produceInPlace(base, attrs) ==
    [base |-> [base EXCEPT !.attributes = attrs],
     result |-> [base EXCEPT !.attributes = attrs]]

\* produce(child, (draft) => { draft.attributes = attrs }) of immer: a copy
\* of child with the attributes, child itself left as it is
produce(base, attrs) ==
    [base |-> base, result |-> [base EXCEPT !.attributes = attrs]]

\* the callback of slottableChildren.map: the addContent call of a plain
\* slotted child, and the child after the call
LightSlotContent(child, stack) ==
    IF "attributes" \in DOMAIN child
    THEN LET slotName == bAttributeValue(child, "slot")
             clone == produce(child,
                              SelectSeq(child.attributes, LAMBDA attr : attr.name # "slot"))
         IN  [child |-> clone.base, lowered |-> clone.result,
              addContent |-> bAddContent(slotName, NULL, irToEs(clone.result, stack))]
    ELSE [child |-> child, lowered |-> child,
          addContent |-> bAddContent(Str(""), NULL, irToEs(child, stack))]

\* scopedSlottableChildren.map with a callback that leaves the bound variable on the stack
RECURSIVE ScopedSlotContentNoPop(_, _)
ScopedSlotContentNoPop(kids, stack) ==
    IF kids = <<>>
    THEN [localVars |-> stack, visits |-> <<>>, addContent |-> <<>>]
    ELSE LET child == Head(kids)
             boundVariableName == child.slotData.value.v
             pushed == pushLocalVars(stack, {boundVariableName})
             addContentExpr == bAddContent(child.slotName.value, boundVariableName,
                                           irChildrenToEs(child.children, pushed))
             rest == ScopedSlotContentNoPop(Tail(kids), pushed)
         IN  [localVars |-> rest.localVars,
              visits |-> <<[site |-> "scoped", child |-> child, localVars |-> pushed]>>
                         \o rest.visits,
              addContent |-> <<addContentExpr>> \o rest.addContent]

\* scopedSlottableChildren.map: the addContent calls of the scoped-slot
\* fragments, the stack each was lowered with and the stack left
RECURSIVE ScopedSlotContent(_, _)
ScopedSlotContent(kids, stack) ==
    IF kids = <<>>
    THEN [localVars |-> stack, visits |-> <<>>, addContent |-> <<>>]
    ELSE LET child == Head(kids)
             boundVariableName == child.slotData.value.v
             pushed == pushLocalVars(stack, {boundVariableName})
             addContentExpr == bAddContent(child.slotName.value, boundVariableName,
                                           irChildrenToEs(child.children, pushed))
             popped == popLocalVars(pushed)
             rest == ScopedSlotContent(Tail(kids), popped)
         IN  [localVars |-> rest.localVars,
              visits |-> <<[site |-> "scoped", child |-> child, localVars |-> pushed]>>
                         \o rest.visits,
              addContent |-> <<addContentExpr>> \o rest.addContent]

\* Component(node, cxt): the node and the stack it leaves, the declarations
\* it hoists, the children it lowered with the stack of each lowering, and
\* the arguments of bYieldFromChildGenerator, or the Error it throws
Component(node, stack) ==
    LET childGeneratorLocalName == "generateMarkup_" \o kebabcaseToCamelcase(node.name)
        isSlottable(child) == child.type # "ScopedSlotFragment"
        slottableChildren == SelectSeq(node.children, isSlottable)
        scopedSlottableChildren ==
            SelectSeq(node.children, LAMBDA child : ~isSlottable(child))
        shadowSlotContent ==
            optimizeAdjacentYieldStmts(irChildrenToEs(slottableChildren, stack))
        light == [i \in 1..Len(slottableChildren) |->
                     LightSlotContent(slottableChildren[i], stack)]
        scoped == ScopedSlotContent(scopedSlottableChildren, stack)
        childProps == getChildAttrsOrProps(node.properties, scoped.localVars)
        childAttrs == getChildAttrsOrProps(node.attributes, scoped.localVars)
    IN  [node |-> [node EXCEPT !.children =
                      [i \in 1..Len(node.children) |->
                          IF isSlottable(node.children[i])
                          THEN LightSlotContent(node.children[i], stack).child
                          ELSE node.children[i]]],
         localVars |-> scoped.localVars,
         hoisted |-> <<childGeneratorLocalName, "import:getReadOnlyProxy">>,
         visits |-> [i \in 1..Len(slottableChildren) |->
                        [site |-> "shadow", child |-> slottableChildren[i],
                         localVars |-> stack]]
                    \o [i \in 1..Len(light) |->
                           [site |-> "light", child |-> light[i].lowered, localVars |-> stack]]
                    \o scoped.visits,
         throws |-> childProps.throws \/ childAttrs.throws,
         childProps |-> childProps.properties,
         childAttrs |-> childAttrs.properties,
         shadowSlotContent |-> shadowSlotContent,
         lightSlotContent |-> [i \in 1..Len(light) |-> light[i].addContent],
         scopedSlotContent |-> scoped.addContent,
         generateMarkup |-> childGeneratorLocalName,
         tagName |-> node.name]


\* addContent(name, fn) of the generated block: slottedContent.light after it
addContent(light, call) ==
    IF call.name \in DOMAIN light
    THEN [light EXCEPT ![call.name] = Append(@, call)]
    ELSE light @@ (call.name :> <<call>>)

\* the addContent statements of the block, run in their order
RECURSIVE RunAddContent(_, _)
RunAddContent(light, statements) ==
    IF statements = <<>> THEN light
    ELSE RunAddContent(addContent(light, Head(statements)), Tail(statements))

\* slottedContent.light when the block yields from the child generator: the
\* light DOM addContent statements come first, the scoped slot ones after
SlottedContentLight(lightSlotContent, scopedSlotContent) ==
    RunAddContent([name \in {} |-> <<>>], lightSlotContent \o scopedSlotContent)

\* the sequences of at most n elements of S
SeqsUpTo(S, n) == UNION {[1..k -> S] : k \in 0..n}

\* no two attributes of a list have the same name
DistinctNames(attrs) ==
    \A i, j \in 1..Len(attrs) : i # j => attrs[i].name # attrs[j].name

\* the attributes of the child component in the template
ChildAttributes ==
    {IrAttribute("hidden", Literal(TrueV)), IrAttribute("hidden", Literal(FalseV)),
     IrAttribute("class", Literal(Str(" "))), IrAttribute("class", Literal(TrueV)),
     IrAttribute("title", Identifier("item")),
     IrAttribute("style", Literal(Str("color:red")))}

\* the properties of the child component in the template
ChildProperties ==
    {IrProperty("disabled", Literal(TrueV)), IrProperty("disabled", Literal(FalseV)),
     IrProperty("value", CallExpression("f"))}

\* the children of the child component in the template
ChildNodes ==
    {IrElement("p", <<IrAttribute("slot", Literal(Str("foo"))),
                      IrAttribute("id", Literal(Str("a")))>>,
               <<IrText(Identifier("item"))>>),
     IrElement("p", <<>>, <<IrText(Literal(Str("hi")))>>),
     IrText(Identifier("item")),
     IrScopedSlotFragment("foo", "item", <<IrText(Identifier("item"))>>),
     IrScopedSlotFragment("bar", "row", <<IrText(Identifier("item"))>>)}

\* the child components of the template
IrComponents ==
    {[type |-> "Component", name |-> "x-child", attributes |-> attrs,
      properties |-> props, children |-> kids] :
        attrs \in {a \in SeqsUpTo(ChildAttributes, MaxIrAttributes) : DistinctNames(a)},
        props \in SeqsUpTo(ChildProperties, 1),
        kids \in SeqsUpTo(ChildNodes, MaxIrChildren)}

\* the local variables in scope where the child component stands
LocalVarStacks == {<<>>, <<{"outer"}>>, <<{"item"}>>}

\* the transformer runs on irNode with the context cxt
ComponentTransformer ==
    /\ ~lowering.done
    /\ LET result == Component(irNode, localVars) IN
           /\ irNode' = result.node
           /\ localVars' = result.localVars
           /\ lowering' = [done |-> TRUE, node |-> irNode, localVars |-> localVars,
                           result |-> result]
    /\ UNCHANGED <<calls, treeVars, last, cyclic, attrVars, eventVars, markupVars, toolVars>>

InitLower ==
    /\ calls = 0
    /\ parent = EmptyHost.parent
    /\ children = EmptyHost.children
    /\ shadowRoot = EmptyHost.shadowRoot
    /\ last = NoCall
    /\ cyclic = FALSE
    /\ tagName = TagOf
    /\ attributes = [e \in Elements |-> <<>>]
    /\ lastAttr = NoAttrCall
    /\ styleCalls = NoStyleCalls
    /\ InitEvents
    /\ NoMarkup
    /\ irNode \in IrComponents
    /\ localVars \in LocalVarStacks
    /\ lowering = [done |-> FALSE]
    /\ NoTools

NextLower == ComponentTransformer

SpecLower == InitLower /\ [][NextLower]_vars

LowerTypeOK == lowering.done => lowering.result.tagName = "x-child"


(***************************************************************************)
(* Properties of the Component transformer.                                *)
(***************************************************************************)
\* the properties of an object expression that have the key
WithKey(properties, key) == SelectSeq(properties, LAMBDA property : property.key = key)

IsBooleanLiteral(attr, value) == attr.value.type = "Literal" /\ attr.value.value = value

\* C17: in the childAttrs object of a child component, an attribute whose
\* value is the boolean literal false is absent, and an attribute whose
\* value is the boolean literal true is present with the empty string as
\* value (class, which the lowering leaves out when empty, aside).
C17_BooleanAttributes ==
    lowering.done /\ ~lowering.result.throws =>
        \A i \in 1..Len(lowering.node.attributes) :
            LET attr == lowering.node.attributes[i]
                found == WithKey(lowering.result.childAttrs, attr.name)
            IN  /\ IsBooleanLiteral(attr, FalseV) => found = <<>>
                /\ IsBooleanLiteral(attr, TrueV) /\ attr.name # "class" =>
                       found = <<EsProperty(attr.name, "literal", Str(""))>>

\* the plain slotted children of the node the transformer was called with
PlainChildren == SelectSeq(lowering.node.children, LAMBDA child : child.type # "ScopedSlotFragment")

\* the value of the slot attribute of a child, "" when it has none
SlotOf(child) ==
    LET found == IF "attributes" \in DOMAIN child
                 THEN SelectSeq(child.attributes, LAMBDA attr : attr.name = "slot")
                 ELSE <<>>
    IN  IF found = <<>> THEN "" ELSE found[1].value.value.v

\* C18: each plain slotted child is registered by an addContent call under
\* the name of its slot attribute, the empty string when it has none or has
\* no attributes, with content lowered from the child without its slot
\* attribute; the IR node is left as it was.
C18_LightSlotContent ==
    lowering.done =>
        /\ irNode = lowering.node
        /\ Len(lowering.result.lightSlotContent) = Len(PlainChildren)
        /\ \A i \in 1..Len(PlainChildren) :
               LET child == PlainChildren[i]
                   call == lowering.result.lightSlotContent[i]
                   stripped == IF "attributes" \in DOMAIN child
                               THEN [child EXCEPT !.attributes =
                                        SelectSeq(@, LAMBDA attr : attr.name # "slot")]
                               ELSE child
               IN  /\ call.name = SlotOf(child)
                   /\ call.variable = NULL
                   /\ call.content = irToEs(stripped, lowering.localVars)
                   /\ \A k \in 1..Len(call.content) : call.content[k].text # " slot=\"foo\""

\* a child with slot="foo" and a child with no attributes were registered
C18_Witness ==
    /\ lowering.done
    /\ \E i \in 1..Len(PlainChildren) : SlotOf(PlainChildren[i]) = "foo"
    /\ \E i \in 1..Len(PlainChildren) : "attributes" \notin DOMAIN PlainChildren[i]
    /\ \E i \in 1..Len(lowering.result.lightSlotContent) :
           lowering.result.lightSlotContent[i].name = "foo"

\* C19: the variable a scoped-slot fragment binds is pushed on the stack of
\* local variables for the lowering of the children of that fragment and of
\* nothing else: the plain slotted children are lowered with the stack the
\* transformer was called with, each fragment with that stack and its own
\* variable on top, and the transformer leaves the stack as it found it.
C19_ScopedVariable ==
    lowering.done =>
        /\ localVars = lowering.localVars
        /\ lowering.result.localVars = lowering.localVars
        /\ \A i \in 1..Len(lowering.result.visits) :
               LET visit == lowering.result.visits[i] IN
               IF visit.site = "scoped"
               THEN visit.localVars =
                        Append(lowering.localVars, {visit.child.slotData.value.v})
               ELSE visit.localVars = lowering.localVars
        /\ \A i \in 1..Len(lowering.result.scopedSlotContent) :
               LET call == lowering.result.scopedSlotContent[i] IN
               /\ call.variable # NULL
               /\ call.variable = "item" => call.content = <<YieldExpression("item")>>
        /\ "item" \notin InScope(lowering.localVars) =>
               \A i \in 1..Len(lowering.result.lightSlotContent) :
                   \A k \in 1..Len(lowering.result.lightSlotContent[i].content) :
                       lowering.result.lightSlotContent[i].content[k]
                           # YieldExpression("item")

\* two fragments and a plain child that names the variable of one were lowered
C19_Witness ==
    /\ lowering.done
    /\ Len(lowering.result.scopedSlotContent) = 2
    /\ "item" \notin InScope(lowering.localVars)
    /\ \E i \in 1..Len(lowering.result.scopedSlotContent) :
           lowering.result.scopedSlotContent[i].content = <<YieldExpression("item")>>

\* a fragment and a plain child that names its variable were lowered
C19_WitnessPlain ==
    /\ lowering.done
    /\ "item" \notin InScope(lowering.localVars)
    /\ \E i \in 1..Len(lowering.result.scopedSlotContent) :
           lowering.result.scopedSlotContent[i].variable = "item"
    /\ \E i \in 1..Len(lowering.result.lightSlotContent) :
           \E k \in 1..Len(lowering.result.lightSlotContent[i].content) :
               lowering.result.lightSlotContent[i].content[k]
                   = YieldExpression("instance.item")

\* the slot name a child of the component targets
TargetOf(child) ==
    IF child.type = "ScopedSlotFragment" THEN child.slotName.value.v ELSE SlotOf(child)

\* the addContent call generated for the i-th child of the component
CallOf(i) ==
    LET kids == lowering.node.children
        same == {k \in 1..i : (kids[k].type = "ScopedSlotFragment")
                                  = (kids[i].type = "ScopedSlotFragment")}
    IN  IF kids[i].type = "ScopedSlotFragment"
        THEN lowering.result.scopedSlotContent[Cardinality(same)]
        ELSE lowering.result.lightSlotContent[Cardinality(same)]

\* the calls of the children that target the name, in document order
RECURSIVE InDocumentOrder(_, _)
InDocumentOrder(name, i) ==
    IF i = 0 THEN <<>>
    ELSE InDocumentOrder(name, i - 1)
         \o IF TargetOf(lowering.node.children[i]) = name THEN <<CallOf(i)>> ELSE <<>>

\* C32: for each slot name, the list slottedContent.light[name] the generated
\* addContent calls build holds the renderers in the document order of the
\* children of the child component that target the name, plain slotted
\* content and scoped-slot fragments alike.
C32_SlotDocumentOrder ==
    lowering.done =>
        LET light == SlottedContentLight(lowering.result.lightSlotContent,
                                         lowering.result.scopedSlotContent)
        IN  \A name \in {"", "foo", "bar"} :
                (IF name \in DOMAIN light THEN light[name] ELSE <<>>)
                    = InDocumentOrder(name, Len(lowering.node.children))


(***************************************************************************)
(* The custom element registry: registerCustomElement, the constructor of  *)
(* HTMLElementImpl, defineCustomElement and getCustomElement.              *)
(***************************************************************************)
\* number of calls the environment makes on the registry
MaxRegCalls == 4

\* registerCustomElement that records the constructor before it checks the name
RegisterCustomElementWriteFirst(reg, rev, name, ctor) ==
    [registry |-> [reg EXCEPT ![name] = ctor],
     reverseRegistry |-> [rev EXCEPT ![ctor] = name],
     threw |-> IF name # toLowerCase(name) \/ reg[name] # UNDEFINED
               THEN "TypeError" ELSE "none"]

\* registerCustomElement(name, ctor)
RegisterCustomElementOp(reg, rev, name, ctor) ==
    IF name # toLowerCase(name) \/ reg[name] # UNDEFINED
    THEN [registry |-> reg, reverseRegistry |-> rev, threw |-> "TypeError"]
    ELSE [registry |-> [reg EXCEPT ![name] = ctor],
          reverseRegistry |-> [rev EXCEPT ![ctor] = name],
          threw |-> "none"]

\* getCustomElement(name)
GetCustomElementOp(reg, name) == reg[name]

\* new ctor(): the constructor of HTMLElementImpl; an empty tag name is falsy
HTMLElementImplOp(rev, ctor) ==
    LET tag == rev[ctor] IN
    IF tag = UNDEFINED \/ tag = <<>>
    THEN [threw |-> "TypeError", tagName |-> UNDEFINED]
    ELSE [threw |-> "none", tagName |-> Text(tag)]

RegCall(op, name, ctor, threw, result) ==
    /\ calls < MaxRegCalls
    /\ calls' = calls + 1
    /\ lastReg' = [op |-> op, name |-> name, ctor |-> ctor, threw |-> threw,
                   result |-> result, registry |-> registry,
                   reverseRegistry |-> reverseRegistry]
    /\ UNCHANGED <<treeVars, last, cyclic, attrVars, eventVars, markupVars, lowerVars,
                   compilation>>

\* defineCustomElement(name, constructor)
DefineCustomElement(name, ctor) ==
    LET r == RegisterCustomElementOp(registry, reverseRegistry, name, ctor) IN
    /\ RegCall("defineCustomElement", name, ctor, r.threw, UNDEFINED)
    /\ registry' = r.registry
    /\ reverseRegistry' = r.reverseRegistry
    /\ registered' = IF r.threw = "none"
                     THEN Append(registered, [name |-> name, ctor |-> ctor])
                     ELSE registered

\* getCustomElement(name)
GetCustomElement(name) ==
    /\ RegCall("getCustomElement", name, UNDEFINED, "none",
               GetCustomElementOp(registry, name))
    /\ UNCHANGED <<registry, reverseRegistry, registered>>

\* new ctor() for a constructor that extends HTMLElementImpl
NewHTMLElement(ctor) ==
    LET r == HTMLElementImplOp(reverseRegistry, ctor) IN
    /\ RegCall("new", UNDEFINED, ctor, r.threw, r.tagName)
    /\ UNCHANGED <<registry, reverseRegistry, registered>>

InitRegistry ==
    /\ calls = 0
    /\ parent = EmptyHost.parent
    /\ children = EmptyHost.children
    /\ shadowRoot = EmptyHost.shadowRoot
    /\ last = NoCall
    /\ cyclic = FALSE
    /\ tagName = TagOf
    /\ attributes = [e \in Elements |-> <<>>]
    /\ lastAttr = NoAttrCall
    /\ styleCalls = NoStyleCalls
    /\ InitEvents
    /\ NoMarkup
    /\ NoLowering
    /\ NoTools

NextRegistry ==
    \/ \E name \in RegNames, ctor \in Ctors : DefineCustomElement(name, ctor)
    \/ \E name \in RegNames : GetCustomElement(name)
    \/ \E ctor \in Ctors : NewHTMLElement(ctor)

SpecRegistry == InitRegistry /\ [][NextRegistry]_vars

\* the registrations of the name that returned normally, in order
RegistrationsOf(name) == SelectSeq(registered, LAMBDA r : r.name = name)

\* the last call was a registration that threw
FailedRegistration ==
    /\ lastReg.op = "defineCustomElement"
    /\ lastReg.threw # "none"

\* C22: a registration under a name that is already registered, or that is not
\* all lower case, throws a TypeError and leaves the registry unchanged:
\* getCustomElement(name) still returns the constructor of the first successful
\* registration of the name, and whatever constructor could be constructed
\* before the call can be constructed after it.
C22_FailedRegistration ==
    lastReg.op = "defineCustomElement" =>
        /\ (lastReg.threw = "TypeError") <=>
               (\/ lastReg.name # toLowerCase(lastReg.name)
                \/ lastReg.registry[lastReg.name] # UNDEFINED)
        /\ FailedRegistration =>
               /\ registry = lastReg.registry
               /\ reverseRegistry = lastReg.reverseRegistry
               /\ RegistrationsOf(lastReg.name) # <<>> =>
                      /\ GetCustomElementOp(registry, lastReg.name)
                             = RegistrationsOf(lastReg.name)[1].ctor
                      /\ HTMLElementImplOp(reverseRegistry, RegistrationsOf(lastReg.name)[1].ctor)
                             = HTMLElementImplOp(lastReg.reverseRegistry,
                                                 RegistrationsOf(lastReg.name)[1].ctor)
               /\ \A ctor \in Ctors :
                      HTMLElementImplOp(lastReg.reverseRegistry, ctor).threw = "none" =>
                          HTMLElementImplOp(reverseRegistry, ctor).threw = "none"

\* another constructor was registered under a registered name, and the first
\* constructor of the name can be constructed
C22_Witness ==
    /\ FailedRegistration
    /\ lastReg.name = toLowerCase(lastReg.name)
    /\ lastReg.ctor # lastReg.registry[lastReg.name]
    /\ HTMLElementImplOp(reverseRegistry, registry[lastReg.name]).threw = "none"

\* a registration under a name with an upper-case letter threw
C22_WitnessUpperCase ==
    /\ FailedRegistration
    /\ lastReg.name # toLowerCase(lastReg.name)
    /\ registered # <<>>

\* C31: the registry and its reverse map stay mutually inverse after any
\* sequence of registrations that returned or threw, the same constructor
\* registered under two names included: for every registered name n,
\* constructing an instance of registry[n] gives an element whose tagName is n.
C31_RegistryInverse ==
    \A name \in RegNames :
        registry[name] # UNDEFINED =>
            /\ reverseRegistry[registry[name]] = name
            /\ HTMLElementImplOp(reverseRegistry, registry[name])
                   = [threw |-> "none", tagName |-> Text(name)]

(***************************************************************************)
(* compileTemplate(src, filename, options, compilationMode), statement by  *)
(* statement.  compilation.did lists what the call did so far, in order.   *)
(***************************************************************************)
\* number of warnings the parser returns
MaxWarnings == 2

\* DiagnosticLevel
DiagnosticLevels == {"Fatal", "Error", "Warning", "Log"}

CompilationModes == {"asyncYield", "async", "sync"}

\* the warning the parser gives at a level
Warning(level) == [level |-> level, message |-> "message of " \o level]

\* what parse(src, ..) returns: root is null or the root of the template
ParseResults ==
    {[root |-> root, warnings |-> warnings] :
        root \in {NULL, "root"},
        warnings \in UNION {[1..n -> {Warning(l) : l \in DiagnosticLevels}] : n \in 0..MaxWarnings}}

\* the loop body that takes only a Fatal warning as fatal
FatalAfterFatalOnly(fatal, warning) == fatal \/ warning.level = "Fatal"

\* the value of `fatal` after the loop body ran for the warning
FatalAfter(fatal, warning) == fatal \/ warning.level = "Fatal" \/ warning.level = "Error"

\* the statement that runs after the statement at p
CtNext(c, p) ==
    CASE p = "parse" -> IF c.root = NULL \/ Len(c.warnings) # 0 THEN "fatal" ELSE "templateIrToEsTree"
      [] p = "fatal" -> IF c.i < Len(c.warnings) THEN "console.error" ELSE "if fatal"
      [] p = "console.error" -> "warning.level"
      [] p = "warning.level" -> IF c.i < Len(c.warnings) THEN "console.error" ELSE "if fatal"
      [] p = "if fatal" -> IF c.fatal \/ c.root = NULL THEN "thrown" ELSE "templateIrToEsTree"
      [] p = "templateIrToEsTree" -> "program"
      [] p = "program" -> IF c.compilationMode \in {"async", "sync"} THEN "transmogrify" ELSE "generate"
      [] p = "transmogrify" -> "generate"
      [] p = "generate" -> "returned"

\* the statement at p ran: c is the state it left
CtStep(p, c, events) ==
    /\ compilation.pc = p
    /\ compilation' = [c EXCEPT !.pc = CtNext(c, p), !.did = compilation.did \o events]
    /\ UNCHANGED <<calls, treeVars, last, cyclic, attrVars, eventVars, markupVars, lowerVars,
                   registryVars>>

\* const { root, warnings } = parse(src, ..)
Parse == CtStep("parse", compilation, <<"parse">>)

\* let fatal = !root
LetFatal ==
    CtStep("fatal", [compilation EXCEPT !.fatal = (compilation.root = NULL)], <<>>)

\* console.error('Cannot compile:', warning.message)
ConsoleError ==
    CtStep("console.error",
           [compilation EXCEPT !.i = @ + 1,
                               !.console = Append(@, compilation.warnings[compilation.i + 1].message)],
           <<"console.error">>)

\* if (warning.level === Fatal || warning.level === Error) fatal = true
WarningLevel ==
    CtStep("warning.level",
           [compilation EXCEPT !.fatal = FatalAfter(@, compilation.warnings[compilation.i])],
           <<>>)

\* if (fatal || !root) throw new Error('Template compilation failure; ..')
IfFatal ==
    CtStep("if fatal", compilation,
           IF CtNext(compilation, "if fatal") = "thrown" THEN <<"throw">> ELSE <<>>)

\* templateIrToEsTree(root, { preserveComments })
TemplateIrToEsTree == CtStep("templateIrToEsTree", compilation, <<"templateIrToEsTree">>)

\* b.program(moduleBody), addScopeTokenDeclarations, getStylesheetImports
Program == CtStep("program", compilation, <<"program">>)

\* transmogrify(program, compilationMode)
Transmogrify == CtStep("transmogrify", compilation, <<"transmogrify">>)

\* return { code: generate(program, {}) }
Generate == CtStep("generate", compilation, <<"generate">>)

InitCompile ==
    /\ calls = 0
    /\ parent = EmptyHost.parent
    /\ children = EmptyHost.children
    /\ shadowRoot = EmptyHost.shadowRoot
    /\ last = NoCall
    /\ cyclic = FALSE
    /\ tagName = TagOf
    /\ attributes = [e \in Elements |-> <<>>]
    /\ lastAttr = NoAttrCall
    /\ styleCalls = NoStyleCalls
    /\ InitEvents
    /\ NoMarkup
    /\ NoLowering
    /\ NoRegistry
    /\ \E r \in ParseResults, mode \in CompilationModes :
           compilation = [pc |-> "parse", root |-> r.root, warnings |-> r.warnings,
                          compilationMode |-> mode, i |-> 0, fatal |-> FALSE,
                          console |-> <<>>, did |-> <<>>]

NextCompile ==
    \/ Parse
    \/ LetFatal
    \/ ConsoleError
    \/ WarningLevel
    \/ IfFatal
    \/ TemplateIrToEsTree
    \/ Program
    \/ Transmogrify
    \/ Generate

SpecCompile == InitCompile /\ [][NextCompile]_vars

\* the parser returned a null root or a warning of level Fatal or Error
ParseFailed ==
    \/ compilation.root = NULL
    \/ \E k \in 1..Len(compilation.warnings) :
           compilation.warnings[k].level \in {"Fatal", "Error"}

\* the call did the thing named
CtDid(what) == \E k \in 1..Len(compilation.did) : compilation.did[k] = what

\* the call is past its check of the parse result
CtChecked == compilation.pc \in {"thrown", "templateIrToEsTree", "program", "transmogrify",
                                 "generate", "returned"}

\* C23: compileTemplate throws its compilation failure, before any lowering
\* or code generation, exactly when the parser returned a null root or a
\* warning of level Fatal or Error; otherwise the warnings are reported and
\* lowering and code generation go on.
C23_CompilationFailure ==
    /\ compilation.pc = "thrown" =>
           /\ ParseFailed
           /\ ~CtDid("templateIrToEsTree") /\ ~CtDid("program")
           /\ ~CtDid("transmogrify") /\ ~CtDid("generate")
    /\ (CtChecked /\ ParseFailed) => compilation.pc = "thrown"
    /\ (CtChecked /\ ~ParseFailed) =>
           /\ compilation.pc # "thrown" /\ ~CtDid("throw")
           /\ compilation.console =
                  [k \in 1..Len(compilation.warnings) |-> compilation.warnings[k].message]
    /\ compilation.pc = "returned" => CtDid("templateIrToEsTree") /\ CtDid("generate")

\* the parser returned a root and an Error warning after a lower one, and the
\* call threw
C23_Witness ==
    /\ compilation.pc = "thrown"
    /\ compilation.root # NULL
    /\ Len(compilation.warnings) = 2
    /\ compilation.warnings[1].level = "Warning"
    /\ compilation.warnings[2].level = "Error"

\* the parser returned a root and warnings of lower levels, and the call
\* reported them and returned code
C23_WitnessProceeds ==
    /\ compilation.pc = "returned"
    /\ Len(compilation.console) = 2
====
